---- MODULE Spec2Model ----
(***************************************************************************)
(* logfiend: the configuration gate (Validate, Sanitize), the provider     *)
(* registry and constructors, the four integrations with their requests    *)
(* and converters, the endpoint display, the output path and the           *)
(* orchestrator's run.                                                     *)
(*                                                                         *)
(* A Go string is modelled as the sequence of its characters, each a       *)
(* one-character string, so that trimming, lower-casing, prefix and        *)
(* substring tests and the endpoint pattern are computed as the code       *)
(* computes them.  A Go error is the sequence of its messages, outermost   *)
(* first (fmt.Errorf with %w prepends one); the nil error is <<>>.         *)
(***************************************************************************)
EXTENDS Integers, Sequences, FiniteSets, TLC

VARIABLES
    pc,            \* position of the run ("gate", "registry", "fetch": the component specifications)
    cfg,           \* the *Config the gate works on in place
    trace,         \* the calls made so far, with their outcome
    dryRun,        \* *dryRun
    airgap,        \* *airgap
    showVersion,   \* *version
    providerName,  \* *providerName
    registry,      \* providers.registry
    provider,      \* the provider NewProvider returned
    subq,          \* the outcomes of the index-store's two sub-queries
    fetched,       \* what FetchDataViews returned
    inventory,     \* the DataSourceInventory built
    exit,          \* how the process ended
    fs             \* the file system as the output path sees it

vars ==
    <<pc, cfg, trace, dryRun, airgap, showVersion, providerName, registry,
      provider, subq, fetched, inventory, exit, fs>>

(***************************************************************************)
(* Bounds of the model.                                                    *)
(***************************************************************************)
\* calls of Validate / Sanitize made on one configuration
MaxCalls ==
    2

\* hits in the response to one listing request
MaxHits ==
    2

\* provider instances constructed in one process
MaxInstances ==
    2

(***************************************************************************)
(* Strings.                                                                *)
(***************************************************************************)
Range(s) ==
    {s[i] : i \in 1..Len(s)}

Min(S) ==
    CHOOSE x \in S : \A y \in S : x <= y

Max(S) ==
    CHOOSE x \in S : \A y \in S : x >= y

\* unicode.IsSpace, on the characters the inputs use
WhiteSpace ==
    {" ", "\t", "\n", "\r"}

UpperCase ==
    <<"A", "B", "C", "D", "E", "F", "G", "H", "I", "J", "K", "L", "M", "N", "O", "P", "Q", "R", "S", "T", "U", "V", "W", "X", "Y", "Z">>

LowerCase ==
    <<"a", "b", "c", "d", "e", "f", "g", "h", "i", "j", "k", "l", "m", "n", "o", "p", "q", "r", "s", "t", "u", "v", "w", "x", "y", "z">>

Digits ==
    {"0", "1", "2", "3", "4", "5", "6", "7", "8", "9"}

ToLowerChar(c) ==
    IF \E i \in 1..Len(UpperCase) : UpperCase[i] = c
    THEN LowerCase[CHOOSE i \in 1..Len(UpperCase) : UpperCase[i] = c]
    ELSE c

\* strings.ToLower
ToLower(s) ==
    [i \in 1..Len(s) |-> ToLowerChar(s[i])]

\* a plausible slip: one space is cut from each end (TrimPrefix / TrimSuffix of " ")
TrimSpace_Once(s) ==
    LET a == IF Len(s) > 0 /\ s[1] \in WhiteSpace THEN 2 ELSE 1
        b == IF Len(s) >= a /\ s[Len(s)] \in WhiteSpace THEN Len(s) - 1 ELSE Len(s)
    IN  SubSeq(s, a, b)

\* strings.TrimSpace
TrimSpace(s) ==
    LET keep == {i \in 1..Len(s) : s[i] \notin WhiteSpace}
    IN  IF keep = {} THEN <<>> ELSE SubSeq(s, Min(keep), Max(keep))

\* strings.HasPrefix
HasPrefix(s, p) ==
    Len(s) >= Len(p) /\ SubSeq(s, 1, Len(p)) = p

\* strings.Contains
Contains(s, sub) ==
    \E i \in 1..(Len(s) - Len(sub) + 1) : SubSeq(s, i, i + Len(sub) - 1) = sub

\* the index after the longest run of characters of class that starts at i
SpanEnd(s, i, class) ==
    LET stop == {j \in i..Len(s) : s[j] \notin class}
    IN  IF stop = {} THEN Len(s) + 1 ELSE Min(stop)

(***************************************************************************)
(* String literals of the code.                                            *)
(***************************************************************************)
s_http ==
    <<"h", "t", "t", "p", ":", "/", "/">>

s_https ==
    <<"h", "t", "t", "p", "s", ":", "/", "/">>

s_localhost ==
    <<"l", "o", "c", "a", "l", "h", "o", "s", "t">>

s_loopback ==
    <<"1", "2", "7", ".", "0", ".", "0", ".", "1">>

s_basic ==
    <<"b", "a", "s", "i", "c">>

s_bearer ==
    <<"b", "e", "a", "r", "e", "r">>

s_api_key ==
    <<"a", "p", "i", "_", "k", "e", "y">>

s_elasticsearch ==
    <<"e", "l", "a", "s", "t", "i", "c", "s", "e", "a", "r", "c", "h">>

s_splunk ==
    <<"s", "p", "l", "u", "n", "k">>

s_sentinel ==
    <<"s", "e", "n", "t", "i", "n", "e", "l">>

s_qradar ==
    <<"q", "r", "a", "d", "a", "r">>

(***************************************************************************)
(* Errors.                                                                 *)
(***************************************************************************)
NoErr ==
    <<>>

\* fmt.Errorf(msg)
Errorf(msg) ==
    <<msg>>

\* fmt.Errorf(msg + ": %w", err)
Wrap(msg, err) ==
    <<msg>> \o err

(***************************************************************************)
(* The configuration: types.ProviderConfig with its *AuthConfig.           *)
(***************************************************************************)
\* c.Provider.Auth == nil
NilAuth ==
    [nil |-> TRUE]

AuthConfig(type, username, password, token, apiKey) ==
    [Type |-> type, Username |-> username, Password |-> password,
     Token |-> token, APIKey |-> apiKey]

\* c.Provider.TLS == nil
NilTLS ==
    [nil |-> TRUE]

\* types.TLSConfig; no constructor reads the certificate file names
TLSConfig(enabled, insecureSkipVerify) ==
    [Enabled |-> enabled, InsecureSkipVerify |-> insecureSkipVerify]

\* types.ProviderConfig with the timeout (seconds) and the retries that
\* config.Load sets by default, and no TLS section
ProviderConfig(type, endpoint, auth) ==
    [Type |-> type, Endpoint |-> endpoint, Auth |-> auth, TLS |-> NilTLS,
     Timeout |-> 30, Retries |-> 3]

\* Config.validateAuth
validateAuth(c) ==
    LET auth == c.Auth
    IN  IF auth.Type = s_basic
        THEN IF auth.Username = <<>> \/ auth.Password = <<>>
             THEN Errorf("basic auth requires username and password")
             ELSE NoErr
        ELSE IF auth.Type = s_bearer
        THEN IF auth.Token = <<>>
             THEN Errorf("bearer auth requires token")
             ELSE NoErr
        ELSE IF auth.Type = s_api_key
        THEN IF auth.APIKey = <<>>
             THEN Errorf("api_key auth requires api_key")
             ELSE NoErr
        ELSE Errorf("unsupported auth type")

\* Config.Validate: the error, NoErr when the configuration is valid
Validate(c) ==
    IF c.Type = <<>>
    THEN Errorf("provider type is required")
    ELSE IF c.Endpoint = <<>>
    THEN Errorf("provider endpoint is required")
    ELSE IF c.Auth # NilAuth /\ validateAuth(c) # NoErr
    THEN Wrap("invalid auth config", validateAuth(c))
    ELSE NoErr

\* [a-zA-Z0-9\-\.]
HostChars ==
    Range(UpperCase) \cup Range(LowerCase) \cup Digits \cup {"-", "."}

\* (/.*)?$ from index i: the end of the text, or a "/" and then no line break
\* ("." does not match "\n")
PathMatches(s, i) ==
    i > Len(s) \/ (s[i] = "/" /\ \A k \in (i + 1)..Len(s) : s[k] # "\n")

\* a plausible slip: the pattern is not anchored at its end, so anything may
\* follow the host's first characters
urlPattern_Unanchored(s) ==
    LET start == IF HasPrefix(s, s_https) THEN Len(s_https) + 1
                 ELSE IF HasPrefix(s, s_http) THEN Len(s_http) + 1
                 ELSE 0
        h == SpanEnd(s, start, HostChars)
    IN  /\ start # 0
        /\ h > start

\* regexp ^https?://[a-zA-Z0-9\-\.]+(:[0-9]+)?(/.*)?$ : after the host's run
\* the next character is no host character, so a ":" there must open the
\* port and the port's digits must run to a "/" or to the end
urlPattern(s) ==
    LET start == IF HasPrefix(s, s_https) THEN Len(s_https) + 1
                 ELSE IF HasPrefix(s, s_http) THEN Len(s_http) + 1
                 ELSE 0
        h == SpanEnd(s, start, HostChars)
        d == SpanEnd(s, h + 1, Digits)
    IN  /\ start # 0
        /\ h > start
        /\ IF h <= Len(s) /\ s[h] = ":"
           THEN d > h + 1 /\ PathMatches(s, d)
           ELSE PathMatches(s, h)

\* Config.sanitizeEndpoint: the configuration it leaves and the error
sanitizeEndpoint(c) ==
    LET endpoint == TrimSpace(c.Endpoint)
    IN  IF endpoint = <<>>
        THEN [cfg |-> c, err |-> Errorf("endpoint cannot be empty")]
        ELSE IF ~urlPattern(endpoint)
        THEN [cfg |-> c, err |-> Errorf("endpoint must be a valid HTTP/HTTPS URL")]
        ELSE IF /\ HasPrefix(endpoint, s_http)
                /\ ~Contains(endpoint, s_localhost)
                /\ ~Contains(endpoint, s_loopback)
        THEN [cfg |-> c, err |-> Errorf("HTTP endpoints only allowed for localhost/127.0.0.1")]
        ELSE [cfg |-> [c EXCEPT !.Endpoint = endpoint], err |-> NoErr]

\* the re-validation of the auth fields at the end of Sanitize
sanitizeAuthCheck(auth) ==
    IF auth.Type = s_basic /\ (auth.Username = <<>> \/ auth.Password = <<>>)
    THEN Errorf("basic auth requires non-empty username and password")
    ELSE IF auth.Type = s_bearer /\ auth.Token = <<>>
    THEN Errorf("bearer auth requires non-empty token")
    ELSE IF auth.Type = s_api_key /\ auth.APIKey = <<>>
    THEN Errorf("api_key auth requires non-empty api_key")
    ELSE NoErr

\* a plausible slip: the provider type is trimmed but not lower-cased
Sanitize_NoLower(c) ==
    LET r == sanitizeEndpoint(c)
        c1 == [r.cfg EXCEPT !.Type = TrimSpace(@)]
        c2 == [c1 EXCEPT !.Auth.Username = TrimSpace(@),
                         !.Auth.Type = ToLower(TrimSpace(@))]
    IN  IF r.err # NoErr
        THEN [cfg |-> r.cfg, err |-> Wrap("invalid endpoint", r.err)]
        ELSE IF c1.Auth = NilAuth
        THEN [cfg |-> c1, err |-> NoErr]
        ELSE [cfg |-> c2, err |-> sanitizeAuthCheck(c2.Auth)]

\* Config.Sanitize: the configuration it leaves (it works in place, and what
\* it assigned before an error stays assigned) and the error
Sanitize(c) ==
    LET r == sanitizeEndpoint(c)
        c1 == [r.cfg EXCEPT !.Type = ToLower(TrimSpace(@))]
        c2 == [c1 EXCEPT !.Auth.Username = TrimSpace(@),
                         !.Auth.Type = ToLower(TrimSpace(@))]
    IN  IF r.err # NoErr
        THEN [cfg |-> r.cfg, err |-> Wrap("invalid endpoint", r.err)]
        ELSE IF c1.Auth = NilAuth
        THEN [cfg |-> c1, err |-> NoErr]
        ELSE [cfg |-> c2, err |-> sanitizeAuthCheck(c2.Auth)]

(***************************************************************************)
(* The provider registry.                                                  *)
(***************************************************************************)
\* providers.Register: registry[strings.ToLower(name)] = factory
Register(reg, name, factory) ==
    [n \in DOMAIN reg \cup {ToLower(name)} |->
        IF n = ToLower(name) THEN factory ELSE reg[n]]

\* make(map[string]ProviderFactory)
EmptyRegistry ==
    [n \in {} |-> ""]

\* providers.init: the registry once the built-in providers are registered
providersInit ==
    Register(
        Register(
            Register(
                Register(EmptyRegistry, s_elasticsearch, "NewElasticsearchProvider"),
                s_splunk, "NewSplunkProvider"),
            s_sentinel, "NewSentinelProvider"),
        s_qradar, "NewQRadarProvider")

\* providers.getAvailableProviders ranges over the map: every key once, in
\* an order the runtime chooses.  The lists it can return.
getAvailableProviders(reg) ==
    {l \in [1..Cardinality(DOMAIN reg) -> DOMAIN reg] :
        \A i, j \in 1..Cardinality(DOMAIN reg) : l[i] = l[j] => i = j}

\* the factories: each returns its provider around the configuration and no
\* error; Name() is fixed per provider
NilProvider ==
    [nil |-> TRUE]

\* client.Transport == nil: the client uses http.DefaultTransport
NilTransport ==
    [nil |-> TRUE]

\* &http.Transport{TLSClientConfig: &tls.Config{InsecureSkipVerify: ...}}
Transport(insecureSkipVerify) ==
    [TLSClientConfig |-> [InsecureSkipVerify |-> insecureSkipVerify]]

\* &http.Client{Timeout: ..., Transport: ...}
Client(timeout, transport) ==
    [Timeout |-> timeout, Transport |-> transport]

\* a plausible slip: the transport is configured whenever there is a TLS
\* section, enabled or not
TLSClient_EnabledIgnored(config) ==
    Client(config.Timeout,
           IF config.TLS # NilTLS
           THEN Transport(config.TLS.InsecureSkipVerify)
           ELSE NilTransport)

\* the client of NewElasticsearchProvider, NewSplunkProvider and
\* NewQRadarProvider
TLSClient(config) ==
    Client(config.Timeout,
           IF config.TLS # NilTLS /\ config.TLS.Enabled
           THEN Transport(config.TLS.InsecureSkipVerify)
           ELSE NilTransport)

\* the client of NewSentinelProvider
PlainClient(config) ==
    Client(config.Timeout, NilTransport)

Factory(factory, config) ==
    [factory |-> factory, config |-> config,
     client |-> IF factory = "NewSentinelProvider" THEN PlainClient(config)
                ELSE TLSClient(config)]

\* a plausible slip: the registry is indexed with the type as configured
NewProvider_CaseSensitive(reg, config, available) ==
    IF config.Type \notin DOMAIN reg
    THEN [provider |-> NilProvider, err |-> Errorf("unsupported provider type"),
          type |-> config.Type, available |-> available]
    ELSE [provider |-> Factory(reg[config.Type], config), err |-> NoErr,
          type |-> config.Type, available |-> <<>>]

\* providers.NewProvider; available is the list getAvailableProviders
\* returns when it is called, and the error message carries config.Type and
\* that list
NewProvider(reg, config, available) ==
    IF ToLower(config.Type) \notin DOMAIN reg
    THEN [provider |-> NilProvider, err |-> Errorf("unsupported provider type"),
          type |-> config.Type, available |-> available]
    ELSE [provider |-> Factory(reg[ToLower(config.Type)], config), err |-> NoErr,
          type |-> config.Type, available |-> <<>>]

(***************************************************************************)
(* HTTP requests: the header fields a request carries.                     *)
(***************************************************************************)
ToUpperChar(c) ==
    IF \E i \in 1..Len(LowerCase) : LowerCase[i] = c
    THEN UpperCase[CHOOSE i \in 1..Len(LowerCase) : LowerCase[i] = c]
    ELSE c

\* textproto.CanonicalMIMEHeaderKey: the first letter and every letter after
\* a "-" in upper case, the other letters in lower case
CanonicalMIMEHeaderKey(key) ==
    [i \in 1..Len(key) |->
        IF i = 1 \/ key[i - 1] = "-" THEN ToUpperChar(key[i]) ELSE ToLowerChar(key[i])]

\* the printable ASCII characters, from code 32 on (the grave accent, code
\* 96, is spelled out)
AsciiTable ==
    <<" ", "!", "\"", "#", "$", "%", "&", "'", "(", ")", "*", "+", ",", "-",
      ".", "/", "0", "1", "2", "3", "4", "5", "6", "7", "8", "9", ":", ";",
      "<", "=", ">", "?", "@", "A", "B", "C", "D", "E", "F", "G", "H", "I",
      "J", "K", "L", "M", "N", "O", "P", "Q", "R", "S", "T", "U", "V", "W",
      "X", "Y", "Z", "[", "\\", "]", "^", "_", "grave", "a", "b", "c", "d", "e",
      "f", "g", "h", "i", "j", "k", "l", "m", "n", "o", "p", "q", "r", "s",
      "t", "u", "v", "w", "x", "y", "z", "{", "|", "}", "~">>

\* the byte of an ASCII character
Ord(c) ==
    31 + CHOOSE i \in 1..Len(AsciiTable) : AsciiTable[i] = c

Base64Alphabet ==
    <<"A", "B", "C", "D", "E", "F", "G", "H", "I", "J", "K", "L", "M", "N", "O", "P", "Q", "R", "S", "T", "U", "V", "W", "X", "Y", "Z", "a", "b", "c", "d", "e", "f", "g", "h", "i", "j", "k", "l", "m", "n", "o", "p", "q", "r", "s", "t", "u", "v", "w", "x", "y", "z", "0", "1", "2", "3", "4", "5", "6", "7", "8", "9", "+", "/">>

\* the digit of the 24-bit group v at position k (0 is the leftmost)
Sextet(v, k) ==
    Base64Alphabet[((v \div (64 ^ (3 - k))) % 64) + 1]

\* base64.StdEncoding.EncodeToString
RECURSIVE EncodeToString(_)
EncodeToString(s) ==
    IF Len(s) = 0 THEN <<>>
    ELSE IF Len(s) = 1
    THEN LET v == Ord(s[1]) * 65536
         IN  <<Sextet(v, 0), Sextet(v, 1), "=", "=">>
    ELSE IF Len(s) = 2
    THEN LET v == Ord(s[1]) * 65536 + Ord(s[2]) * 256
         IN  <<Sextet(v, 0), Sextet(v, 1), Sextet(v, 2), "=">>
    ELSE LET v == Ord(s[1]) * 65536 + Ord(s[2]) * 256 + Ord(s[3])
         IN  <<Sextet(v, 0), Sextet(v, 1), Sextet(v, 2), Sextet(v, 3)>>
                 \o EncodeToString(SubSeq(s, 4, Len(s)))

\* http.Header{}
NoHeader ==
    [h \in {} |-> <<>>]

\* Header.Set: the value under the canonical form of the key
Header_Set(header, key, value) ==
    [h \in DOMAIN header \cup {CanonicalMIMEHeaderKey(key)} |->
        IF h = CanonicalMIMEHeaderKey(key) THEN value ELSE header[h]]

s_Authorization ==
    <<"A", "u", "t", "h", "o", "r", "i", "z", "a", "t", "i", "o", "n">>

\* Request.SetBasicAuth: "Basic " and the base64 text of username:password
SetBasicAuth(header, username, password) ==
    Header_Set(header, s_Authorization,
               <<"B", "a", "s", "i", "c", " ">> \o EncodeToString(username \o <<":">> \o password))

\* a plausible slip: the api key is sent under the index-store's scheme
Splunk_addAuth_ApiKeyScheme(auth, header) ==
    IF auth.Type = s_basic THEN SetBasicAuth(header, auth.Username, auth.Password)
    ELSE IF auth.Type = s_bearer
    THEN Header_Set(header, s_Authorization, <<"B", "e", "a", "r", "e", "r", " ">> \o auth.Token)
    ELSE IF auth.Type = s_api_key
    THEN Header_Set(header, s_Authorization, <<"A", "p", "i", "K", "e", "y", " ">> \o auth.APIKey)
    ELSE header

\* ElasticsearchProvider.addAuth, on the header of the request
Elasticsearch_addAuth(auth, header) ==
    IF auth.Type = s_basic THEN SetBasicAuth(header, auth.Username, auth.Password)
    ELSE IF auth.Type = s_bearer
    THEN Header_Set(header, s_Authorization, <<"B", "e", "a", "r", "e", "r", " ">> \o auth.Token)
    ELSE IF auth.Type = s_api_key
    THEN Header_Set(header, s_Authorization, <<"A", "p", "i", "K", "e", "y", " ">> \o auth.APIKey)
    ELSE header

\* SplunkProvider.addAuth
Splunk_addAuth(auth, header) ==
    IF auth.Type = s_basic THEN SetBasicAuth(header, auth.Username, auth.Password)
    ELSE IF auth.Type = s_bearer
    THEN Header_Set(header, s_Authorization, <<"B", "e", "a", "r", "e", "r", " ">> \o auth.Token)
    ELSE IF auth.Type = s_api_key
    THEN Header_Set(header, s_Authorization, <<"S", "p", "l", "u", "n", "k", " ">> \o auth.APIKey)
    ELSE header

\* QRadarProvider.addAuth
QRadar_addAuth(auth, header) ==
    IF auth.Type = s_basic THEN SetBasicAuth(header, auth.Username, auth.Password)
    ELSE IF auth.Type = s_api_key
    THEN Header_Set(header, <<"S", "E", "C">>, auth.APIKey)
    ELSE IF auth.Type = s_bearer
    THEN Header_Set(header, s_Authorization, <<"B", "e", "a", "r", "e", "r", " ">> \o auth.Token)
    ELSE header

\* a plausible slip: the token is sent only when the declared type is bearer
Sentinel_addAuth_NoFallback(auth, header) ==
    IF auth.Type = s_bearer
    THEN Header_Set(header, s_Authorization, <<"B", "e", "a", "r", "e", "r", " ">> \o auth.Token)
    ELSE header

\* SentinelProvider.addAuth
Sentinel_addAuth(auth, header) ==
    IF auth.Type = s_bearer
    THEN Header_Set(header, s_Authorization, <<"B", "e", "a", "r", "e", "r", " ">> \o auth.Token)
    ELSE IF auth.Token # <<>>
    THEN Header_Set(header, s_Authorization, <<"B", "e", "a", "r", "e", "r", " ">> \o auth.Token)
    ELSE header

\* http.NewRequestWithContext(ctx, "GET", ...) with its header fields
\* a nil request body
NoBody ==
    [nil |-> TRUE]

\* http.NewRequestWithContext(ctx, "GET", url, body) and its header
Request(url, body, header) ==
    [Method |-> "GET", URL |-> url, Body |-> body, Header |-> header]

s_ContentType ==
    <<"C", "o", "n", "t", "e", "n", "t", "-", "T", "y", "p", "e">>

s_json ==
    <<"a", "p", "p", "l", "i", "c", "a", "t", "i", "o", "n", "/", "j", "s", "o", "n">>

\* strings.TrimSuffix(s, "/")
TrimSuffix(s) ==
    IF Len(s) > 0 /\ s[Len(s)] = "/" THEN SubSeq(s, 1, Len(s) - 1) ELSE s

HexDigits ==
    <<"0", "1", "2", "3", "4", "5", "6", "7", "8", "9", "A", "B", "C", "D", "E", "F">>

\* url.QueryEscape: letters, digits, "-", "_", "." and "~" stay, a space
\* becomes "+", any other byte becomes "%" and its two hexadecimal digits
\* (the string is escaped half by half)
RECURSIVE QueryEscape(_)
QueryEscape(s) ==
    IF Len(s) = 0 THEN <<>>
    ELSE IF Len(s) = 1
    THEN IF s[1] \in Range(UpperCase) \cup Range(LowerCase) \cup Digits
                        \cup {"-", "_", ".", "~"}
         THEN s
         ELSE IF s[1] = " " THEN <<"+">>
         ELSE <<"%", HexDigits[(Ord(s[1]) \div 16) + 1], HexDigits[(Ord(s[1]) % 16) + 1]>>
    ELSE QueryEscape(SubSeq(s, 1, Len(s) \div 2))
            \o QueryEscape(SubSeq(s, (Len(s) \div 2) + 1, Len(s)))

\* a before b in the order of their bytes
RECURSIVE LexLess(_, _)
LexLess(a, b) ==
    IF Len(a) = 0 THEN Len(b) > 0
    ELSE IF Len(b) = 0 THEN FALSE
    ELSE IF a[1] = b[1] THEN LexLess(Tail(a), Tail(b))
    ELSE Ord(a[1]) < Ord(b[1])

\* url.Values{} and params.Add(key, value), for keys added once
NoValues ==
    [k \in {} |-> <<>>]

Values_Add(values, key, value) ==
    [k \in DOMAIN values \cup {key} |-> IF k = key THEN value ELSE values[k]]

\* url.Values.Encode: key=value, escaped, sorted by key, joined with "&"
RECURSIVE Values_Encode(_)
Values_Encode(values) ==
    IF DOMAIN values = {} THEN <<>>
    ELSE LET first == CHOOSE k \in DOMAIN values :
                        \A o \in DOMAIN values \ {k} : LexLess(k, o)
             rest == [o \in DOMAIN values \ {first} |-> values[o]]
         IN  QueryEscape(first) \o <<"=">> \o QueryEscape(values[first])
                \o (IF DOMAIN rest = {} THEN <<>> ELSE <<"&">> \o Values_Encode(rest))

\* the request of ElasticsearchProvider.executeSearch for the sub-query on
\* sourceType; the body is the term query on that type
Elasticsearch_searchRequest(config, sourceType) ==
    LET url == TrimSuffix(config.Endpoint) \o <<"/">> \o <<".", "k", "i", "b", "a", "n", "a", "/", "_", "s", "e", "a", "r", "c", "h">>
        header == Header_Set(NoHeader, s_ContentType, s_json)
    IN  Request(url, [query |-> [term |-> [type |-> sourceType]], size |-> 1000],
                IF config.Auth # NilAuth THEN Elasticsearch_addAuth(config.Auth, header)
                ELSE header)

\* the request of ElasticsearchProvider.ValidateConnection
Elasticsearch_probe(config) ==
    Request(TrimSuffix(config.Endpoint) \o <<"/", "_", "a", "l", "i", "a", "s", "e", "s">>, NoBody,
            IF config.Auth # NilAuth THEN Elasticsearch_addAuth(config.Auth, NoHeader)
            ELSE NoHeader)

\* the request of SplunkProvider.fetchIndexes
Splunk_indexesRequest(config) ==
    LET endpoint == TrimSuffix(config.Endpoint) \o <<"/", "s", "e", "r", "v", "i", "c", "e", "s", "/", "d", "a", "t", "a", "/", "i", "n", "d", "e", "x", "e", "s">>
        params == Values_Add(Values_Add(NoValues, <<"o", "u", "t", "p", "u", "t", "_", "m", "o", "d", "e">>, <<"j", "s", "o", "n">>),
                             <<"c", "o", "u", "n", "t">>, <<"0">>)
        header == Header_Set(NoHeader, s_ContentType, s_json)
    IN  Request(endpoint \o <<"?">> \o Values_Encode(params), NoBody,
                IF config.Auth # NilAuth THEN Splunk_addAuth(config.Auth, header)
                ELSE header)

\* the request of SplunkProvider.ValidateConnection
Splunk_probe(config) ==
    Request(TrimSuffix(config.Endpoint) \o <<"/", "s", "e", "r", "v", "i", "c", "e", "s", "/", "s", "e", "r", "v", "e", "r", "/", "i", "n", "f", "o", "?", "o", "u", "t", "p", "u", "t", "_", "m", "o", "d", "e", "=", "j", "s", "o", "n">>,
            NoBody,
            IF config.Auth # NilAuth THEN Splunk_addAuth(config.Auth, NoHeader)
            ELSE NoHeader)

\* the request of QRadarProvider.fetchLogSources
QRadar_logSourcesRequest(config) ==
    LET endpoint == TrimSuffix(config.Endpoint)
                        \o <<"/", "a", "p", "i", "/", "c", "o", "n", "f", "i", "g", "/", "e", "v", "e", "n", "t", "_", "s", "o", "u", "r", "c", "e", "s", "/", "l", "o", "g", "_", "s", "o", "u", "r", "c", "e", "_", "m", "a", "n", "a", "g", "e", "m", "e", "n", "t", "/", "l", "o", "g", "_", "s", "o", "u", "r", "c", "e", "s">>
        params == Values_Add(NoValues, <<"f", "i", "e", "l", "d", "s">>,
                    <<"i", "d", ",", "n", "a", "m", "e", ",", "d", "e", "s", "c", "r", "i", "p", "t", "i", "o", "n", ",", "t", "y", "p", "e", "_", "i", "d", ",", "p", "r", "o", "t", "o", "c", "o", "l", "_", "t", "y", "p", "e", "_", "i", "d", ",", "e", "n", "a", "b", "l", "e", "d", ",", "g", "a", "t", "e", "w", "a", "y", ",", "i", "n", "t", "e", "r", "n", "a", "l", ",", "c", "r", "e", "d", "i", "b", "i", "l", "i", "t", "y", ",", "t", "a", "r", "g", "e", "t", "_", "e", "v", "e", "n", "t", "_", "r", "a", "t", "e", ",", "c", "r", "e", "a", "t", "i", "o", "n", "_", "d", "a", "t", "e", ",", "m", "o", "d", "i", "f", "i", "e", "d", "_", "d", "a", "t", "e", ",", "l", "a", "s", "t", "_", "e", "v", "e", "n", "t", "_", "t", "i", "m", "e", ",", "s", "t", "a", "t", "u", "s", ",", "a", "u", "t", "o", "_", "d", "i", "s", "c", "o", "v", "e", "r", "e", "d", ",", "a", "v", "e", "r", "a", "g", "e", "_", "e", "p", "s">>)
        header == Header_Set(Header_Set(NoHeader, s_ContentType, s_json),
                             <<"V", "e", "r", "s", "i", "o", "n">>, <<"1", "5", ".", "0">>)
    IN  Request(endpoint \o <<"?">> \o Values_Encode(params), NoBody,
                IF config.Auth # NilAuth THEN QRadar_addAuth(config.Auth, header)
                ELSE header)

\* the request of QRadarProvider.ValidateConnection
QRadar_probe(config) ==
    LET header == Header_Set(NoHeader, <<"V", "e", "r", "s", "i", "o", "n">>, <<"1", "5", ".", "0">>)
    IN  Request(TrimSuffix(config.Endpoint) \o <<"/", "a", "p", "i", "/", "s", "y", "s", "t", "e", "m", "/", "a", "b", "o", "u", "t">>, NoBody,
                IF config.Auth # NilAuth THEN QRadar_addAuth(config.Auth, header)
                ELSE header)

\* the URL of the workspace in Azure Resource Manager, from the map that
\* parseWorkspaceFromEndpoint returns
Sentinel_workspaceURL(workspaceInfo) ==
    <<"h", "t", "t", "p", "s", ":", "/", "/", "m", "a", "n", "a", "g", "e", "m", "e", "n", "t", ".", "a", "z", "u", "r", "e", ".", "c", "o", "m", "/", "s", "u", "b", "s", "c", "r", "i", "p", "t", "i", "o", "n", "s", "/">> \o workspaceInfo.subscriptionId
        \o <<"/", "r", "e", "s", "o", "u", "r", "c", "e", "G", "r", "o", "u", "p", "s", "/">> \o workspaceInfo.resourceGroupName
        \o <<"/", "p", "r", "o", "v", "i", "d", "e", "r", "s", "/", "M", "i", "c", "r", "o", "s", "o", "f", "t", ".", "O", "p", "e", "r", "a", "t", "i", "o", "n", "a", "l", "I", "n", "s", "i", "g", "h", "t", "s", "/", "w", "o", "r", "k", "s", "p", "a", "c", "e", "s", "/">>
        \o workspaceInfo.workspaceName

\* the request of SentinelProvider.fetchTables
Sentinel_tablesRequest(config, workspaceInfo) ==
    LET apiURL == Sentinel_workspaceURL(workspaceInfo) \o <<"/", "t", "a", "b", "l", "e", "s">>
        params == Values_Add(NoValues, <<"a", "p", "i", "-", "v", "e", "r", "s", "i", "o", "n">>, <<"2", "0", "2", "2", "-", "1", "0", "-", "0", "1">>)
        header == Header_Set(NoHeader, s_ContentType, s_json)
    IN  Request(apiURL \o <<"?">> \o Values_Encode(params), NoBody,
                IF config.Auth # NilAuth THEN Sentinel_addAuth(config.Auth, header)
                ELSE header)

\* the request of SentinelProvider.ValidateConnection
Sentinel_probe(config, workspaceInfo) ==
    LET params == Values_Add(NoValues, <<"a", "p", "i", "-", "v", "e", "r", "s", "i", "o", "n">>, <<"2", "0", "2", "2", "-", "1", "0", "-", "0", "1">>)
    IN  Request(Sentinel_workspaceURL(workspaceInfo) \o <<"?">> \o Values_Encode(params),
                NoBody,
                IF config.Auth # NilAuth THEN Sentinel_addAuth(config.Auth, NoHeader)
                ELSE NoHeader)

(***************************************************************************)
(* The provider integrations.  What a request met is an outcome: a         *)
(* transport failure, the cancellation of the run's context, a status      *)
(* other than 200, a 200 whose body does not decode, or a 200 with the     *)
(* records listed.  A provider is the constructor that made it and its     *)
(* configuration.                                                          *)
(***************************************************************************)
Outcome(kind, hits) ==
    [kind |-> kind, hits |-> hits]

\* a fetch's result: the records (nil is <<>>) and the error
Result(recs, err) ==
    [recs |-> recs, err |-> err]

\* a nil *time.Time
NilTime ==
    [nil |-> TRUE]

\* a time.Time, by its seconds since the epoch
Time(sec) ==
    [unix |-> sec]

\* a nil map[string]interface{}
NilMap ==
    [nil |-> TRUE]

\* m[key] = value on a map
MapSet(m, key, value) ==
    [k \in DOMAIN m \cup {key} |-> IF k = key THEN value ELSE m[k]]

\* types.DataSource{ID: id, Type: type}: the other fields hold their zero value
DataSource(id, type) ==
    [ID |-> id, Name |-> "", Title |-> "", Type |-> type, Pattern |-> "",
     Description |-> "", CreatedAt |-> NilTime, UpdatedAt |-> NilTime,
     Status |-> "", Tags |-> <<>>, Metadata |-> NilMap]

\* a decoded JSON string and a decoded JSON number in a map[string]interface{}
JString(s) ==
    [t |-> "string", v |-> s]

JNumber(n) ==
    [t |-> "number", v |-> n]

\* attributes[key].(string): the value and whether the assertion holds (a
\* nil map has no key)
StringAt(attributes, key) ==
    IF attributes # NilMap /\ key \in DOMAIN attributes /\ attributes[key].t = "string"
    THEN [v |-> attributes[key].v, ok |-> TRUE]
    ELSE [v |-> "", ok |-> FALSE]

\* time.RFC3339
RFC3339 ==
    "2006-01-02T15:04:05Z07:00"

\* the layout of the log-search earliest-time field
SplunkLayout ==
    "2006-01-02T15:04:05.000-07:00"

\* time.Parse, on the timestamps the responses carry: the instant of a text
\* the layout accepts, an error for any other text
Parse(layout, value) ==
    IF layout = RFC3339 /\ value = "2024-01-02T03:04:05Z"
    THEN [t |-> Time(1704164645), err |-> NoErr]
    ELSE IF layout = SplunkLayout /\ value = "2024-01-02T03:04:05.000+00:00"
    THEN [t |-> Time(1704164645), err |-> NoErr]
    ELSE [t |-> NilTime, err |-> Errorf("parsing time")]

\* time.Unix(sec, 0).Format(time.RFC3339): the text of the instant in the
\* local zone, kept as the instant and the layout
Format(t, layout) ==
    [layout |-> layout, unix |-> t.unix]

DecimalDigits ==
    <<"0", "1", "2", "3", "4", "5", "6", "7", "8", "9">>

\* fmt.Sprintf("%d", n), n not negative
RECURSIVE Itoa(_)
Itoa(n) ==
    IF n < 10 THEN DecimalDigits[n + 1]
    ELSE Itoa(n \div 10) \o DecimalDigits[(n % 10) + 1]

\* strings.HasSuffix
HasSuffix(s, suffix) ==
    Len(s) >= Len(suffix) /\ SubSeq(s, Len(s) - Len(suffix) + 1, Len(s)) = suffix

\* ElasticsearchProvider.convertToDataSource
Elasticsearch_convertToDataSource(e, hit, sourceType) ==
    LET attributes ==
            IF sourceType = "index-pattern" /\ hit.Source.IndexPattern # NilMap
            THEN hit.Source.IndexPattern
            ELSE IF sourceType = "data-view" /\ hit.Source.DataView # NilMap
            THEN hit.Source.DataView
            ELSE NilMap
        title == StringAt(attributes, "title")
        timeField == StringAt(attributes, "timeFieldName")
        updatedAt == Parse(RFC3339, hit.Source.UpdatedAt)
        ds0 == DataSource(hit.ID, sourceType)
        ds1 == IF title.ok
               THEN [ds0 EXCEPT !.Title = title.v, !.Name = title.v, !.Pattern = title.v]
               ELSE ds0
        ds2 == IF timeField.ok
               THEN [ds1 EXCEPT !.Metadata = [timeField |-> timeField.v]]
               ELSE ds1
    IN  IF hit.Source.UpdatedAt # "" /\ updatedAt.err = NoErr
        THEN [ds2 EXCEPT !.UpdatedAt = updatedAt.t]
        ELSE ds2

\* SplunkProvider.convertToDataSource
Splunk_convertToDataSource(s, entry) ==
    LET ds0 == [DataSource(entry.Name, "splunk-index") EXCEPT
                    !.Name = entry.Name,
                    !.Title = entry.Name,
                    !.Pattern = "index=" \o entry.Name]
        ds1 == IF entry.Content.IsInternal = "1"
               THEN [ds0 EXCEPT !.Status = "internal", !.Tags = Append(@, "internal")]
               ELSE [ds0 EXCEPT !.Status = "active", !.Tags = Append(@, "external")]
        ds2 == [ds1 EXCEPT !.Metadata =
                    [maxSizeMB |-> entry.Content.MaxSize,
                     currentSizeMB |-> entry.Content.CurrentSizeMB,
                     totalEventCount |-> entry.Content.TotalEventCount,
                     dataType |-> entry.Content.DataType,
                     homePath |-> entry.Content.HomePath,
                     coldPath |-> entry.Content.ColdPath,
                     thawedPath |-> entry.Content.ThawedPath]]
        minTime == Parse(SplunkLayout, entry.Content.MinTime)
    IN  IF entry.Content.MinTime # "" /\ entry.Content.MinTime # "0" /\ minTime.err = NoErr
        THEN [ds2 EXCEPT !.CreatedAt = minTime.t]
        ELSE ds2

\* a plausible slip: the api key the request was signed with is kept with
\* the record, for troubleshooting
QRadar_metadata_KeepsKey(q, logSource) ==
    [typeId |-> logSource.TypeID,
     protocolTypeId |-> logSource.ProtocolTypeID,
     credibility |-> logSource.Credibility,
     targetEventRate |-> logSource.TargetEventRate,
     averageEPS |-> logSource.AverageEPS,
     gateway |-> logSource.Gateway,
     internal |-> logSource.Internal,
     autoDiscovered |-> logSource.AutoDiscovered,
     sec |-> IF q.config.Auth # NilAuth THEN q.config.Auth.APIKey ELSE <<>>]

\* the metadata map literal of QRadarProvider.convertToDataSource
QRadar_metadata(q, logSource) ==
    [typeId |-> logSource.TypeID,
     protocolTypeId |-> logSource.ProtocolTypeID,
     credibility |-> logSource.Credibility,
     targetEventRate |-> logSource.TargetEventRate,
     averageEPS |-> logSource.AverageEPS,
     gateway |-> logSource.Gateway,
     internal |-> logSource.Internal,
     autoDiscovered |-> logSource.AutoDiscovered]

\* a plausible slip: the gateway tag is appended after the auto-discovered tag
QRadar_tags_GatewayLast(logSource) ==
    <<"qradar">>
        \o (IF logSource.Internal THEN <<"internal">> ELSE <<"external">>)
        \o (IF logSource.AutoDiscovered THEN <<"auto-discovered">> ELSE <<>>)
        \o (IF logSource.Gateway THEN <<"gateway">> ELSE <<>>)

\* the tags of QRadarProvider.convertToDataSource
QRadar_tags(logSource) ==
    <<"qradar">>
        \o (IF logSource.Internal THEN <<"internal">> ELSE <<"external">>)
        \o (IF logSource.Gateway THEN <<"gateway">> ELSE <<>>)
        \o (IF logSource.AutoDiscovered THEN <<"auto-discovered">> ELSE <<>>)

\* QRadarProvider.convertToDataSource
QRadar_convertToDataSource(q, logSource) ==
    LET ds0 == [DataSource(Itoa(logSource.ID), "qradar-log-source") EXCEPT
                    !.Name = logSource.Name,
                    !.Title = logSource.Name,
                    !.Description = logSource.Description,
                    !.Status = IF logSource.Enabled THEN "enabled" ELSE "disabled",
                    !.Tags = QRadar_tags(logSource)]
        ds1 == IF logSource.CreationDate > 0
               THEN [ds0 EXCEPT !.CreatedAt = Time(logSource.CreationDate \div 1000)]
               ELSE ds0
        ds2 == IF logSource.ModifiedDate > 0
               THEN [ds1 EXCEPT !.UpdatedAt = Time(logSource.ModifiedDate \div 1000)]
               ELSE ds1
        m0 == QRadar_metadata(q, logSource)
        m1 == IF logSource.LastEventTime > 0
              THEN MapSet(m0, "lastEventTime",
                          Format(Time(logSource.LastEventTime \div 1000), RFC3339))
              ELSE m0
        m2 == IF logSource.Status.LastSeen > 0
              THEN MapSet(m1, "lastSeen",
                          Format(Time(logSource.Status.LastSeen \div 1000), RFC3339))
              ELSE m1
        m3 == IF Len(logSource.Status.Messages) > 0
              THEN MapSet(m2, "statusMessages", logSource.Status.Messages)
              ELSE m2
    IN  [ds2 EXCEPT !.Metadata = m3]

\* SentinelProvider.convertToDataSource
Sentinel_convertToDataSource(s, table, workspaceName) ==
    LET schema == table.Properties.Schema
        ds0 == [DataSource(table.ID, "log-analytics-table") EXCEPT
                    !.Name = schema.Name,
                    !.Title = schema.DisplayName,
                    !.Pattern = schema.Name,
                    !.Description = schema.Description,
                    !.Status = "active",
                    !.Tags = <<"azure", "sentinel">>
                             \o (IF HasSuffix(schema.Name, "_CL") THEN <<"custom">> ELSE <<>>)
                             \o (IF table.Properties.Plan = "Analytics"
                                 THEN <<"analytics">> ELSE <<>>)]
        m0 == [workspace |-> workspaceName,
               retentionDays |-> table.Properties.RetentionInDays,
               totalRetention |-> table.Properties.TotalRetention,
               archiveRetention |-> table.Properties.ArchiveRetention,
               plan |-> table.Properties.Plan,
               columnCount |-> Len(schema.Columns),
               resourceId |-> table.ID]
        m1 == IF Len(schema.Columns) > 0
              THEN MapSet(m0, "columns",
                          [i \in 1..Len(schema.Columns) |->
                              [name |-> schema.Columns[i].Name,
                               type |-> schema.Columns[i].Type,
                               description |-> schema.Columns[i].Description]])
              ELSE m0
    IN  [ds0 EXCEPT !.Metadata = m1]

\* a plausible slip: a body that does not decode is read as an empty listing
listRequest_DecodeIgnored(out, vendor, recs) ==
    IF out.kind = "transport"
    THEN Result(<<>>, Wrap("failed to execute request", Errorf("transport")))
    ELSE IF out.kind = "cancelled"
    THEN Result(<<>>, Wrap("failed to execute request", Errorf("context canceled")))
    ELSE IF out.kind = "status"
    THEN Result(<<>>, Errorf(vendor \o " returned status"))
    ELSE Result(recs, NoErr)

\* one listing request: client.Do (which fails when the transport fails and
\* when the context is cancelled), the status check, the decoding; recs are
\* the records converted from a decoded body
listRequest(out, vendor, recs) ==
    IF out.kind = "transport"
    THEN Result(<<>>, Wrap("failed to execute request", Errorf("transport")))
    ELSE IF out.kind = "cancelled"
    THEN Result(<<>>, Wrap("failed to execute request", Errorf("context canceled")))
    ELSE IF out.kind = "status"
    THEN Result(<<>>, Errorf(vendor \o " returned status"))
    ELSE IF out.kind = "decode"
    THEN Result(<<>>, Wrap("failed to decode response", Errorf("decode")))
    ELSE Result(recs, NoErr)

\* ElasticsearchProvider.executeSearch
executeSearch(e, out, sourceType) ==
    listRequest(out, "elasticsearch",
                [i \in 1..Len(out.hits) |->
                    Elasticsearch_convertToDataSource(e, out.hits[i], sourceType)])

\* a plausible slip: the data-view records are put in front
Elasticsearch_FetchDataViews_DataViewsFirst(e, ipOut, dvOut) ==
    LET indexPatterns == executeSearch(e, ipOut, "index-pattern")
        ds1 == IF indexPatterns.err = NoErr THEN indexPatterns.recs ELSE <<>>
        dataViews == executeSearch(e, dvOut, "data-view")
        ds2 == IF dataViews.err = NoErr THEN dataViews.recs \o ds1 ELSE ds1
        err == dataViews.err
    IN  IF Len(ds2) = 0 /\ err # NoErr
        THEN Result(<<>>, Wrap("failed to fetch any data sources", err))
        ELSE Result(ds2, NoErr)

\* ElasticsearchProvider.FetchDataViews; ipOut and dvOut are what the
\* index-pattern and the data-view query meet.  err is assigned by both
\* queries, so the final test reads the data-view query's error.
Elasticsearch_FetchDataViews(e, ipOut, dvOut) ==
    LET indexPatterns == executeSearch(e, ipOut, "index-pattern")
        ds1 == IF indexPatterns.err = NoErr THEN indexPatterns.recs ELSE <<>>
        dataViews == executeSearch(e, dvOut, "data-view")
        ds2 == IF dataViews.err = NoErr THEN ds1 \o dataViews.recs ELSE ds1
        err == dataViews.err
    IN  IF Len(ds2) = 0 /\ err # NoErr
        THEN Result(<<>>, Wrap("failed to fetch any data sources", err))
        ELSE Result(ds2, NoErr)

\* SplunkProvider.FetchDataViews
Splunk_FetchDataViews(s, out) ==
    listRequest(out, "splunk",
                [i \in 1..Len(out.hits) |-> Splunk_convertToDataSource(s, out.hits[i])])

\* QRadarProvider.FetchDataViews
QRadar_FetchDataViews(q, out) ==
    listRequest(out, "qradar",
                [i \in 1..Len(out.hits) |-> QRadar_convertToDataSource(q, out.hits[i])])

\* strings.Trim(s, "/")
TrimSlashes(s) ==
    LET keep == {i \in 1..Len(s) : s[i] # "/"}
    IN  IF keep = {} THEN <<>> ELSE SubSeq(s, Min(keep), Max(keep))

\* strings.Split(s, "/")
RECURSIVE Split(_)
Split(s) ==
    LET at == {i \in 1..Len(s) : s[i] = "/"}
    IN  IF at = {} THEN <<s>>
        ELSE <<SubSeq(s, 1, Min(at) - 1)>> \o Split(SubSeq(s, Min(at) + 1, Len(s)))

\* url.Parse(endpoint).Path of an endpoint the gate accepted: from the first
\* "/" after the scheme to the end, or to the first "?" or "#"
urlPath(endpoint) ==
    LET start == IF HasPrefix(endpoint, s_https) THEN Len(s_https) + 1 ELSE Len(s_http) + 1
        slash == SpanEnd(endpoint, start, Range(endpoint) \ {"/", "?", "#"})
        stop == SpanEnd(endpoint, slash, Range(endpoint) \ {"?", "#"})
    IN  IF slash <= Len(endpoint) /\ endpoint[slash] = "/"
        THEN SubSeq(endpoint, slash, stop - 1)
        ELSE <<>>

\* a plausible slip: the workspace name is taken from the end of the path
parseWorkspaceFromEndpoint_LastSegment(config) ==
    LET parts == Split(TrimSlashes(urlPath(config.Endpoint)))
    IN  IF Len(parts) < 8
        THEN [info |-> <<>>, err |-> Errorf("invalid Azure workspace URL format")]
        ELSE [info |-> [subscriptionId |-> parts[2], resourceGroupName |-> parts[4],
                        workspaceName |-> parts[Len(parts)]],
              err |-> NoErr]

\* SentinelProvider.parseWorkspaceFromEndpoint
parseWorkspaceFromEndpoint(config) ==
    LET parts == Split(TrimSlashes(urlPath(config.Endpoint)))
    IN  IF Len(parts) < 8
        THEN [info |-> <<>>, err |-> Errorf("invalid Azure workspace URL format")]
        ELSE [info |-> [subscriptionId |-> parts[2], resourceGroupName |-> parts[4],
                        workspaceName |-> parts[8]],
              err |-> NoErr]

\* SentinelProvider.FetchDataViews
Sentinel_FetchDataViews(s, out) ==
    LET workspaceInfo == parseWorkspaceFromEndpoint(s.config)
    IN  IF workspaceInfo.err # NoErr
        THEN Result(<<>>, Wrap("failed to parse workspace info", workspaceInfo.err))
        ELSE listRequest(out, "azure sentinel",
                         [i \in 1..Len(out.hits) |->
                             Sentinel_convertToDataSource(s, out.hits[i],
                                                          workspaceInfo.info.workspaceName)])

\* Provider.FetchDataViews on the provider p; outs are the outcomes of the
\* requests it issues, in order
FetchDataViews(p, outs) ==
    IF p.factory = "NewElasticsearchProvider"
    THEN Elasticsearch_FetchDataViews(p, outs[1], outs[2])
    ELSE IF p.factory = "NewSplunkProvider" THEN Splunk_FetchDataViews(p, outs[1])
    ELSE IF p.factory = "NewSentinelProvider" THEN Sentinel_FetchDataViews(p, outs[1])
    ELSE QRadar_FetchDataViews(p, outs[1])

\* a plausible slip: the listing request is sent once more for each retry
\* configured
FetchDataViews_Requests_Retried(p) ==
    IF p.factory = "NewElasticsearchProvider"
    THEN <<Elasticsearch_searchRequest(p.config, "index-pattern"),
           Elasticsearch_searchRequest(p.config, "data-view")>>
    ELSE IF p.factory = "NewSplunkProvider" THEN <<Splunk_indexesRequest(p.config)>>
    ELSE IF p.factory = "NewSentinelProvider"
    THEN IF parseWorkspaceFromEndpoint(p.config).err # NoErr
         THEN <<>>
         ELSE <<Sentinel_tablesRequest(p.config, parseWorkspaceFromEndpoint(p.config).info)>>
    ELSE [n \in 1..(1 + p.config.Retries) |-> QRadar_logSourcesRequest(p.config)]

\* the requests FetchDataViews hands to client.Do, in order
FetchDataViews_Requests(p) ==
    IF p.factory = "NewElasticsearchProvider"
    THEN <<Elasticsearch_searchRequest(p.config, "index-pattern"),
           Elasticsearch_searchRequest(p.config, "data-view")>>
    ELSE IF p.factory = "NewSplunkProvider" THEN <<Splunk_indexesRequest(p.config)>>
    ELSE IF p.factory = "NewSentinelProvider"
    THEN IF parseWorkspaceFromEndpoint(p.config).err # NoErr
         THEN <<>>
         ELSE <<Sentinel_tablesRequest(p.config, parseWorkspaceFromEndpoint(p.config).info)>>
    ELSE <<QRadar_logSourcesRequest(p.config)>>

\* the probe request of ValidateConnection: client.Do and the status check
\* (the body is not read)
probeRequest(out, vendor) ==
    IF out.kind = "transport"
    THEN Wrap("failed to connect to " \o vendor, Errorf("transport"))
    ELSE IF out.kind = "cancelled"
    THEN Wrap("failed to connect to " \o vendor, Errorf("context canceled"))
    ELSE IF out.kind = "status"
    THEN Errorf(vendor \o " health check failed with status")
    ELSE NoErr

\* Provider.ValidateConnection on the provider p
ValidateConnection(p, out) ==
    IF p.factory = "NewElasticsearchProvider" THEN probeRequest(out, "Elasticsearch")
    ELSE IF p.factory = "NewSplunkProvider" THEN probeRequest(out, "Splunk")
    ELSE IF p.factory = "NewSentinelProvider"
    THEN IF parseWorkspaceFromEndpoint(p.config).err # NoErr
         THEN Wrap("invalid workspace endpoint", parseWorkspaceFromEndpoint(p.config).err)
         ELSE probeRequest(out, "Azure Sentinel")
    ELSE probeRequest(out, "QRadar")

\* the requests ValidateConnection hands to client.Do
ValidateConnection_Requests(p) ==
    IF p.factory = "NewElasticsearchProvider" THEN <<Elasticsearch_probe(p.config)>>
    ELSE IF p.factory = "NewSplunkProvider" THEN <<Splunk_probe(p.config)>>
    ELSE IF p.factory = "NewSentinelProvider"
    THEN IF parseWorkspaceFromEndpoint(p.config).err # NoErr
         THEN <<>>
         ELSE <<Sentinel_probe(p.config, parseWorkspaceFromEndpoint(p.config).info)>>
    ELSE <<QRadar_probe(p.config)>>

\* types.ProviderCapabilities
ProviderCapabilities(realTime, historical, dataTypes, requiresAuth) ==
    [SupportsRealTimeQueries |-> realTime, SupportsHistoricalData |-> historical,
     SupportedDataTypes |-> dataTypes, RequiresAuthentication |-> requiresAuth]

\* Provider.GetCapabilities on the provider p
GetCapabilities(p) ==
    IF p.factory = "NewElasticsearchProvider"
    THEN ProviderCapabilities(TRUE, TRUE, <<"index-pattern", "data-view">>,
                              p.config.Auth # NilAuth)
    ELSE IF p.factory = "NewSplunkProvider"
    THEN ProviderCapabilities(TRUE, TRUE, <<"splunk-index", "summary-index">>,
                              p.config.Auth # NilAuth)
    ELSE IF p.factory = "NewSentinelProvider"
    THEN ProviderCapabilities(TRUE, TRUE, <<"log-analytics-table", "custom-table">>, TRUE)
    ELSE ProviderCapabilities(TRUE, TRUE, <<"qradar-log-source", "qradar-flow-source">>, TRUE)

\* Provider.Name
Name(p) ==
    IF p.factory = "NewElasticsearchProvider" THEN "elasticsearch"
    ELSE IF p.factory = "NewSplunkProvider" THEN "splunk"
    ELSE IF p.factory = "NewSentinelProvider" THEN "azure-sentinel"
    ELSE "qradar"

(***************************************************************************)
(* The inventory main builds (its timestamp, time.Now(), is left out).     *)
(***************************************************************************)
\* a plausible slip: the count is of the distinct ids
BuildInventory_DistinctIds(name, version, dataViews) ==
    [Metadata |-> [Provider |-> name, Version |-> version,
                   SourceCount |-> Cardinality({dataViews[i].ID : i \in 1..Len(dataViews)}),
                   GeneratedBy |-> "logfiend"],
     DataSources |-> dataViews]

\* types.DataSourceInventory{...} in main
BuildInventory(name, version, dataViews) ==
    [Metadata |-> [Provider |-> name, Version |-> version,
                   SourceCount |-> Len(dataViews), GeneratedBy |-> "logfiend"],
     DataSources |-> dataViews]

NoInventory ==
    [nil |-> TRUE]

NoResult ==
    [nil |-> TRUE]

\* the runs that never touch the output path
NoFS ==
    [nil |-> TRUE]

\* var version = "dev"
version ==
    "dev"

(***************************************************************************)
(* The configurations the gate is run on.                                  *)
(***************************************************************************)
\* {type: "ELASTICSEARCH", endpoint: "https://siem.example.com:9200",
\*  auth: {type: "bearer", token: " "}}
ScenarioB ==
    ProviderConfig(<<"E", "L", "A", "S", "T", "I", "C", "S", "E", "A", "R", "C", "H">>, <<"h", "t", "t", "p", "s", ":", "/", "/", "s", "i", "e", "m", ".", "e", "x", "a", "m", "p", "l", "e", ".", "c", "o", "m", ":", "9", "2", "0", "0">>,
                   AuthConfig(s_bearer, <<>>, <<>>, <<" ">>, <<>>))

\* {type: "splunk", endpoint: "http://localhost:8089"}
ScenarioA ==
    ProviderConfig(s_splunk, <<"h", "t", "t", "p", ":", "/", "/", "l", "o", "c", "a", "l", "h", "o", "s", "t", ":", "8", "0", "8", "9">>, NilAuth)

GateTypes ==
    {s_splunk, <<"E", "L", "A", "S", "T", "I", "C", "S", "E", "A", "R", "C", "H">>, <<" ", " ", "S", "p", "l", "u", "n", "k", " ">>, <<" ">>, <<>>}

GateEndpoints ==
    { <<"h", "t", "t", "p", "s", ":", "/", "/", "s", "i", "e", "m", ".", "e", "x", "a", "m", "p", "l", "e", ".", "c", "o", "m", ":", "9", "2", "0", "0">>,
      <<" ", "h", "t", "t", "p", "s", ":", "/", "/", "s", "i", "e", "m", ".", "e", "x", "a", "m", "p", "l", "e", ".", "c", "o", "m", ":", "9", "2", "0", "0", "\t">>,
      <<"h", "t", "t", "p", "s", ":", "/", "/", "s", "i", "e", "m", ".", "e", "x", "a", "m", "p", "l", "e", ".", "c", "o", "m", "/", "/">>,
      <<"h", "t", "t", "p", "s", ":", "/", "/", "s", "i", "e", "m", ".", "e", "x", "a", "m", "p", "l", "e", ".", "c", "o", "m", "/", "a", "\n", "b">>,
      <<"h", "t", "t", "p", "s", ":", "/", "/", "u", "s", "e", "r", ":", "p", "w", "@", "s", "i", "e", "m", ".", "e", "x", "a", "m", "p", "l", "e", ".", "c", "o", "m">>,
      <<"h", "t", "t", "p", "s", ":", "/", "/", "s", "i", "e", "m", ".", "e", "x", "a", "m", "p", "l", "e", ".", "c", "o", "m", ":">>,
      <<"h", "t", "t", "p", "s", ":", "/", "/">>,
      <<"h", "t", "t", "p", ":", "/", "/", "l", "o", "c", "a", "l", "h", "o", "s", "t", ":", "8", "0", "8", "9">>,
      <<"h", "t", "t", "p", ":", "/", "/", "1", "2", "7", ".", "0", ".", "0", ".", "1", ":", "9", "2", "0", "0">>,
      <<"h", "t", "t", "p", ":", "/", "/", "s", "i", "e", "m", ".", "e", "x", "a", "m", "p", "l", "e", ".", "c", "o", "m", ":", "9", "2", "0", "0">>,
      <<"h", "t", "t", "p", ":", "/", "/", "l", "o", "c", "a", "l", "h", "o", "s", "t", ".", "e", "v", "i", "l", ".", "c", "o", "m">>,
      <<"h", "t", "t", "p", ":", "/", "/", "e", "v", "i", "l", ".", "c", "o", "m", "/", "l", "o", "c", "a", "l", "h", "o", "s", "t">>,
      <<"H", "T", "T", "P", ":", "/", "/", "l", "o", "c", "a", "l", "h", "o", "s", "t">>,
      <<"f", "t", "p", ":", "/", "/", "s", "i", "e", "m", ".", "e", "x", "a", "m", "p", "l", "e", ".", "c", "o", "m">>,
      <<" ", " ">>,
      <<>> }

GateUsernames ==
    {<<>>, <<" ">>, <<" ", "a", "d", "m", "i", "n", " ">>}

GatePasswords ==
    {<<>>, <<" ">>, <<"s", "3", "c", "r", "e", "t">>}

GateSecrets ==
    {<<>>, <<" ">>, <<"t", "o", "k">>}

GateAuths ==
    {NilAuth}
    \cup {AuthConfig(t, u, p, <<>>, <<>>) :
            t \in {s_basic, <<" ", "B", "a", "s", "i", "c", " ">>}, u \in GateUsernames, p \in GatePasswords}
    \cup {AuthConfig(t, <<>>, <<>>, k, <<>>) : t \in {s_bearer, <<"B", "E", "A", "R", "E", "R">>}, k \in GateSecrets}
    \cup {AuthConfig(t, <<>>, <<>>, <<>>, k) : t \in {s_api_key, <<"A", "p", "i", "_", "K", "e", "y">>}, k \in GateSecrets}
    \cup {AuthConfig(t, <<"a", "d", "m", "i", "n">>, <<"s", "3", "c", "r", "e", "t">>, <<>>, <<>>) : t \in {<<"o", "a", "u", "t", "h">>, <<>>}}

GateConfigs ==
    {ProviderConfig(t, e, a) : t \in GateTypes, e \in GateEndpoints, a \in GateAuths}

(***************************************************************************)
(* The gate on its own: Validate and Sanitize called, in any order and     *)
(* repeatedly, on one configuration.                                       *)
(***************************************************************************)
Call(op, before, after, err) ==
    [op |-> op, before |-> before, after |-> after, err |-> err]

GateInit ==
    /\ pc = "gate"
    /\ cfg \in GateConfigs
    /\ trace = <<>>
    /\ dryRun = FALSE
    /\ airgap = FALSE
    /\ showVersion = FALSE
    /\ providerName = <<>>
    /\ registry = providersInit
    /\ provider = NilProvider
    /\ subq = <<>>
    /\ fetched = NoResult
    /\ inventory = NoInventory
    /\ exit = "running"
    /\ fs = NoFS

GateValidate ==
    /\ pc = "gate"
    /\ Len(trace) < MaxCalls
    /\ trace' = Append(trace, Call("Validate", cfg, cfg, Validate(cfg)))
    /\ UNCHANGED <<pc, cfg, dryRun, airgap, showVersion, providerName, registry,
                   provider, subq, fetched, inventory, exit, fs>>

GateSanitize ==
    /\ pc = "gate"
    /\ Len(trace) < MaxCalls
    /\ cfg' = Sanitize(cfg).cfg
    /\ trace' = Append(trace, Call("Sanitize", cfg, Sanitize(cfg).cfg, Sanitize(cfg).err))
    /\ UNCHANGED <<pc, dryRun, airgap, showVersion, providerName, registry,
                   provider, subq, fetched, inventory, exit, fs>>

GateNext ==
    \/ GateValidate
    \/ GateSanitize

SpecGate ==
    GateInit /\ [][GateNext]_vars

(***************************************************************************)
(* Properties of the gate, under SpecGate.                                 *)
(***************************************************************************)
\* the host of a URL that starts with prefix: the text up to the first ":" or "/"
HostOf(e, prefix) ==
    LET i == Len(prefix) + 1
        stop == {j \in i..Len(e) : e[j] \in {":", "/"}}
    IN  SubSeq(e, i, IF stop = {} THEN Len(e) ELSE Min(stop) - 1)

SchemeError ==
    "HTTP endpoints only allowed for localhost/127.0.0.1"

\* C2: every http endpoint whose host is neither localhost nor 127.0.0.1 is
\* refused by Sanitize, and no https endpoint is refused because of its scheme.
C2_HttpOnlyForLoopback ==
    \A i \in 1..Len(trace) :
        trace[i].op = "Sanitize" =>
            LET e == TrimSpace(trace[i].before.Endpoint)
            IN  /\ (HasPrefix(e, s_http) /\ HostOf(e, s_http) \notin {s_localhost, s_loopback})
                       => trace[i].err # NoErr
                /\ HasPrefix(e, s_https) => SchemeError \notin Range(trace[i].err)

\* C3: with an acceptable endpoint and auth.type = "basic", Sanitize succeeds
\* exactly when username and password are both non-empty after trimming.
C3_BasicIffTrimmedNonEmpty ==
    \A i \in 1..Len(trace) :
        LET b == trace[i].before
        IN  (/\ trace[i].op = "Sanitize"
             /\ sanitizeEndpoint(b).err = NoErr
             /\ b.Auth # NilAuth
             /\ b.Auth.Type = s_basic)
            => ((trace[i].err = NoErr)
                 <=> (TrimSpace(b.Auth.Username) # <<>> /\ TrimSpace(b.Auth.Password) # <<>>))

\* C4: a bearer configuration whose token, or an api_key configuration whose
\* api_key, is only whitespace fails Sanitize.
C4_BlankCredentialFails ==
    \A i \in 1..Len(trace) :
        LET b == trace[i].before
        IN  (/\ trace[i].op = "Sanitize"
             /\ b.Auth # NilAuth
             /\ \/ b.Auth.Type = s_bearer /\ b.Auth.Token # <<>> /\ TrimSpace(b.Auth.Token) = <<>>
                \/ b.Auth.Type = s_api_key /\ b.Auth.APIKey # <<>> /\ TrimSpace(b.Auth.APIKey) = <<>>)
            => trace[i].err # NoErr

\* C6: Sanitize is idempotent: after a Sanitize that succeeded, a second
\* Sanitize succeeds and leaves every field as the first left it.
C6_SanitizeIdempotent ==
    \A i \in 1..(Len(trace) - 1) :
        (/\ trace[i].op = "Sanitize"
         /\ trace[i].err = NoErr
         /\ trace[i + 1].op = "Sanitize")
        => /\ trace[i + 1].err = NoErr
           /\ trace[i + 1].after = trace[i].after

\* a second Sanitize ran after a first one that succeeded and had changed the
\* type, the endpoint and the auth section
C6_Witness ==
    \E i \in 1..(Len(trace) - 1) :
        /\ trace[i].op = "Sanitize"
        /\ trace[i].err = NoErr
        /\ trace[i + 1].op = "Sanitize"
        /\ trace[i].before.Type # trace[i].after.Type
        /\ trace[i].before.Endpoint # trace[i].after.Endpoint
        /\ trace[i].before.Auth # trace[i].after.Auth

\* an absolute http(s) URL of the accepted grammar, stated on its own: a
\* scheme, a non-empty host that ends at h, an optional port of digits that
\* ends at q, and nothing more or a path that starts with "/"
IsAbsoluteHttpURL(s) ==
    \E p \in {s_http, s_https} :
        /\ HasPrefix(s, p)
        /\ \E h \in (Len(p) + 1)..Len(s) :
            /\ \A k \in (Len(p) + 1)..h : s[k] \in HostChars
            /\ \E q \in h..Len(s) :
                /\ \/ q = h
                   \/ /\ q >= h + 2
                      /\ s[h + 1] = ":"
                      /\ \A k \in (h + 2)..q : s[k] \in Digits
                /\ \/ q = Len(s)
                   \/ /\ s[q + 1] = "/"
                      /\ \A k \in (q + 2)..Len(s) : s[k] # "\n"

NoSurroundingSpace(s) ==
    s = <<>> \/ (s[1] \notin WhiteSpace /\ s[Len(s)] \notin WhiteSpace)

\* C7: after Validate and then Sanitize succeed, the type is lower-case and
\* trimmed, the endpoint is trimmed and an absolute http(s) URL, and a
\* present auth section has a known type with its required fields non-empty.
C7_SanitizedInvariant ==
    \A i \in 1..(Len(trace) - 1) :
        (/\ trace[i].op = "Validate"
         /\ trace[i].err = NoErr
         /\ trace[i + 1].op = "Sanitize"
         /\ trace[i + 1].err = NoErr)
        => LET c == trace[i + 1].after
           IN  /\ Range(c.Type) \cap Range(UpperCase) = {}
               /\ NoSurroundingSpace(c.Type)
               /\ NoSurroundingSpace(c.Endpoint)
               /\ IsAbsoluteHttpURL(c.Endpoint)
               /\ c.Auth # NilAuth =>
                    /\ c.Auth.Type \in {s_basic, s_bearer, s_api_key}
                    /\ c.Auth.Type = s_basic => (c.Auth.Username # <<>> /\ c.Auth.Password # <<>>)
                    /\ c.Auth.Type = s_bearer => c.Auth.Token # <<>>
                    /\ c.Auth.Type = s_api_key => c.Auth.APIKey # <<>>

\* Validate and then Sanitize succeeded on a configuration with an auth
\* section, and Sanitize changed the type, the endpoint and the username
C7_Witness ==
    \E i \in 1..(Len(trace) - 1) :
        /\ trace[i].op = "Validate"
        /\ trace[i].err = NoErr
        /\ trace[i + 1].op = "Sanitize"
        /\ trace[i + 1].err = NoErr
        /\ trace[i + 1].after.Auth # NilAuth
        /\ trace[i + 1].before.Type # trace[i + 1].after.Type
        /\ trace[i + 1].before.Endpoint # trace[i + 1].after.Endpoint
        /\ trace[i + 1].before.Auth.Username # trace[i + 1].after.Auth.Username

\* C27: after Validate and then Sanitize both succeed the provider type is
\* not empty, whatever the configuration was.
C27_TypeNonEmptyAfterGate ==
    \A i \in 1..(Len(trace) - 1) :
        (/\ trace[i].op = "Validate"
         /\ trace[i].err = NoErr
         /\ trace[i + 1].op = "Sanitize"
         /\ trace[i + 1].err = NoErr)
        => trace[i + 1].after.Type # <<>>

\* C28: a Sanitize that returns an error leaves the configuration as it was
\* before the call, and Validate never changes the configuration.
C28_FailedSanitizeChangesNothing ==
    \A i \in 1..Len(trace) :
        /\ (trace[i].op = "Sanitize" /\ trace[i].err # NoErr)
                => trace[i].after = trace[i].before
        /\ trace[i].op = "Validate" => trace[i].after = trace[i].before

\* the text of e between the first "://" and the first "/" after it
Authority(e) ==
    LET seps == {i \in 1..(Len(e) - 2) : SubSeq(e, i, i + 2) = <<":", "/", "/">>}
        from == Min(seps) + 3
        stop == {j \in from..Len(e) : e[j] = "/"}
    IN  IF seps = {} THEN <<>>
        ELSE SubSeq(e, from, IF stop = {} THEN Len(e) ELSE Min(stop) - 1)

\* a is a host of letters, digits, "-" and ".", and then nothing or ":" and
\* digits
HostAndPort(a) ==
    \E h \in 1..Len(a) :
        /\ \A k \in 1..h : a[k] \in HostChars
        /\ \/ h = Len(a)
           \/ /\ a[h + 1] = ":"
              /\ h + 1 < Len(a)
              /\ \A k \in (h + 2)..Len(a) : a[k] \in Digits

\* C29: every endpoint Sanitize accepts has an authority that is a host and
\* an optional numeric port, with no user-info; an endpoint with "@" in its
\* authority is refused.
C29_NoUserInfoAccepted ==
    \A i \in 1..Len(trace) :
        trace[i].op = "Sanitize" =>
            /\ trace[i].err = NoErr =>
                /\ "@" \notin Range(Authority(trace[i].after.Endpoint))
                /\ HostAndPort(Authority(trace[i].after.Endpoint))
            /\ "@" \in Range(Authority(TrimSpace(trace[i].before.Endpoint)))
                => trace[i].err # NoErr

\* Sanitize refused an endpoint that carries user:password@ before its host
C29_Witness ==
    \E i \in 1..Len(trace) :
        /\ trace[i].op = "Sanitize"
        /\ "@" \in Range(Authority(trace[i].before.Endpoint))
        /\ ":" \in Range(Authority(trace[i].before.Endpoint))
        /\ trace[i].err # NoErr

\* Sanitize accepted an endpoint with a host and a port
C29_WitnessAccepted ==
    \E i \in 1..Len(trace) :
        /\ trace[i].op = "Sanitize"
        /\ trace[i].err = NoErr
        /\ ":" \in Range(Authority(trace[i].after.Endpoint))

(***************************************************************************)
(* The registry on its own: lookups with any type string, one after the    *)
(* other; trace holds the latest.                                          *)
(***************************************************************************)
LookupTypes ==
    { s_splunk, <<"S", "P", "L", "U", "N", "K">>, <<"S", "p", "l", "u", "n", "k">>, <<"E", "l", "a", "s", "t", "i", "c", "S", "e", "a", "r", "c", "h">>, <<"Q", "R", "a", "d", "a", "r">>, <<"S", "E", "N", "T", "I", "N", "E", "L">>,
      <<"a", "z", "u", "r", "e", "-", "s", "e", "n", "t", "i", "n", "e", "l">>, <<"k", "a", "f", "k", "a">>, <<" ", "s", "p", "l", "u", "n", "k">>, <<"q", "r", "a", "d", "a", "r", "\n">>, <<>> }

LookupCall(reg, res, regAfter) ==
    [op |-> "NewProvider", registry |-> reg, registryAfter |-> regAfter,
     type |-> res.type, provider |-> res.provider, err |-> res.err,
     available |-> res.available]

RegistryInit ==
    /\ pc = "registry"
    /\ registry = providersInit
    /\ cfg = ScenarioA
    /\ trace = <<>>
    /\ dryRun = FALSE
    /\ airgap = FALSE
    /\ showVersion = FALSE
    /\ providerName = <<>>
    /\ provider = NilProvider
    /\ subq = <<>>
    /\ fetched = NoResult
    /\ inventory = NoInventory
    /\ exit = "running"
    /\ fs = NoFS

RegistryLookup ==
    /\ pc = "registry"
    /\ \E t \in LookupTypes, available \in getAvailableProviders(registry) :
        LET res == NewProvider(registry, [cfg EXCEPT !.Type = t], available)
        IN  /\ provider' = res.provider
            /\ trace' = <<LookupCall(registry, res, registry)>>
    /\ UNCHANGED <<pc, cfg, dryRun, airgap, showVersion, providerName, registry,
                   subq, fetched, inventory, exit, fs>>

RegistryNext ==
    RegistryLookup

SpecRegistry ==
    RegistryInit /\ [][RegistryNext]_vars

\* the same string up to the case of its letters
EqualFold(a, b) ==
    /\ Len(a) = Len(b)
    /\ \A k \in 1..Len(a) : ToLowerChar(a[k]) = ToLowerChar(b[k])

\* C8: a type string that is a registered name up to case resolves to that
\* name's constructor; any other fails with an error listing each
\* registered name exactly once; a lookup leaves the registry as it was.
C8_LookupCaseInsensitive ==
    \A i \in 1..Len(trace) :
        trace[i].op = "NewProvider" =>
            LET reg == trace[i].registry
                names == {n \in DOMAIN reg : EqualFold(n, trace[i].type)}
            IN  /\ \A n \in names :
                    /\ trace[i].err = NoErr
                    /\ trace[i].provider # NilProvider
                    /\ trace[i].provider.factory = reg[n]
                /\ names = {} =>
                    /\ trace[i].err # NoErr
                    /\ trace[i].provider = NilProvider
                    /\ Range(trace[i].available) = DOMAIN reg
                    /\ Len(trace[i].available) = Cardinality(DOMAIN reg)
                /\ trace[i].registryAfter = reg

\* a lookup with a mixed-case variant of a registered name found that
\* name's constructor
C8_Witness ==
    \E i \in 1..Len(trace) :
        /\ trace[i].op = "NewProvider"
        /\ trace[i].type \notin DOMAIN trace[i].registry
        /\ trace[i].err = NoErr
        /\ trace[i].provider.factory = "NewElasticsearchProvider"

(***************************************************************************)
(* What the requests can meet.                                             *)
(***************************************************************************)
FailureKinds ==
    {"transport", "status", "decode"}

\* a hit of an ElasticsearchResponse
ESHit(id, type, indexPattern, dataView, updatedAt) ==
    [ID |-> id,
     Source |-> [Type |-> type, IndexPattern |-> indexPattern, DataView |-> dataView,
                 UpdatedAt |-> updatedAt]]

\* an entry of a SplunkIndexResponse
SplunkEntry(name, isInternal, minTime) ==
    [Name |-> name,
     Content |-> [MaxSize |-> "500000", CurrentSizeMB |-> "12", MaxTime |-> "",
                  MinTime |-> minTime, TotalEventCount |-> "42",
                  IsInternal |-> isInternal, DataType |-> "event",
                  HomePath |-> "$SPLUNK_DB/" \o name \o "/db",
                  ColdPath |-> "$SPLUNK_DB/" \o name \o "/colddb",
                  ThawedPath |-> "$SPLUNK_DB/" \o name \o "/thaweddb",
                  EnableOnlineBucketRepair |-> "1"]]

\* a QRadarLogSource
QRadarLogSource(id, enabled, internal, gateway, autoDiscovered, creationDate, lastEventTime, messages) ==
    [ID |-> id, Name |-> "fw-" \o Itoa(id), Description |-> "firewall", TypeID |-> 11,
     ProtocolTypeID |-> 0, Enabled |-> enabled, Gateway |-> gateway,
     Internal |-> internal, Credibility |-> 5, TargetEventRate |-> 100,
     CreationDate |-> creationDate, ModifiedDate |-> creationDate,
     LastEventTime |-> lastEventTime,
     Status |-> [Status |-> "OK", LastSeen |-> lastEventTime, Messages |-> messages],
     AutoDiscovered |-> autoDiscovered, AverageEPS |-> 3]

\* a table of a SentinelTablesResponse
SentinelTable(id, name, plan, columns) ==
    [ID |-> id, Name |-> name, Type |-> "Microsoft.OperationalInsights/workspaces/tables",
     Properties |-> [RetentionInDays |-> 30, TotalRetention |-> 90,
                     ArchiveRetention |-> 60, Plan |-> plan,
                     Schema |-> [Name |-> name, DisplayName |-> name,
                                 Description |-> "table " \o name, Columns |-> columns]]]

\* {enabled: false, internal: true, gateway: false, auto_discovered: true}
ScenarioC ==
    QRadarLogSource(7, FALSE, TRUE, FALSE, TRUE, 86400999, 0, <<>>)

\* the records a response of the provider p lists
VendorHits(p) ==
    IF p.factory = "NewElasticsearchProvider"
    THEN { ESHit("a", "index-pattern",
                 [title |-> JString("logs-*"), timeFieldName |-> JString("@timestamp")],
                 NilMap, "2024-01-02T03:04:05Z"),
           ESHit("b", "data-view", NilMap, [title |-> JString("metrics-*")], "") }
    ELSE IF p.factory = "NewSplunkProvider"
    THEN { SplunkEntry("main", "0", "2024-01-02T03:04:05.000+00:00"),
           SplunkEntry("_internal", "1", "0") }
    ELSE IF p.factory = "NewSentinelProvider"
    THEN { SentinelTable("/tables/SecurityEvent", "SecurityEvent", "Analytics",
                         <<[Name |-> "TimeGenerated", Type |-> "datetime",
                            Description |-> ""]>>),
           SentinelTable("/tables/Custom_CL", "Custom_CL", "Basic", <<>>) }
    ELSE { ScenarioC,
           QRadarLogSource(12, TRUE, FALSE, TRUE, FALSE, 0, 86400999, <<"ok">>) }

\* what one listing request of the provider p can meet
Outcomes(p) ==
    {Outcome(k, <<>>) : k \in FailureKinds \cup {"cancelled"}}
    \cup {Outcome("ok", h) : h \in UNION {[1..n -> VendorHits(p)] : n \in 0..MaxHits}}

ProbeOutcomes ==
    {Outcome(k, <<>>) : k \in FailureKinds \cup {"cancelled", "ok"}}

\* the outcomes of the requests FetchDataViews issues on p: two for the
\* index-store, one for the others.  The requests of one call share the
\* run's context: once it is cancelled, the next request meets it cancelled.
FetchOutcomes(p) ==
    IF p.factory = "NewElasticsearchProvider"
    THEN {outs \in Outcomes(p) \X Outcomes(p) :
             outs[1].kind = "cancelled" => outs[2].kind = "cancelled"}
    ELSE {<<out>> : out \in Outcomes(p)}

AzureEndpoint ==
    <<"h", "t", "t", "p", "s", ":", "/", "/", "m", "a", "n", "a", "g", "e", "m", "e", "n", "t", ".", "a", "z", "u", "r", "e", ".", "c", "o", "m", "/", "s", "u", "b", "s", "c", "r", "i", "p", "t", "i", "o", "n", "s", "/", "s", "1", "/", "r", "e", "s", "o", "u", "r", "c", "e", "G", "r", "o", "u", "p", "s", "/", "r", "g", "/", "p", "r", "o", "v", "i", "d", "e", "r", "s", "/", "M", "i", "c", "r", "o", "s", "o", "f", "t", ".", "O", "p", "e", "r", "a", "t", "i", "o", "n", "a", "l", "I", "n", "s", "i", "g", "h", "t", "s", "/", "w", "o", "r", "k", "s", "p", "a", "c", "e", "s", "/", "w", "s">>

\* a call of ValidateConnection: what its probe met, the requests it issued
\* and the error it returned
ConnectionCall(p, out) ==
    [op |-> "ValidateConnection", outs |-> <<out>>,
     requests |-> ValidateConnection_Requests(p),
     recs |-> <<>>, err |-> ValidateConnection(p, out)]

\* a call of FetchDataViews: what its requests met, the requests it issued,
\* the records and the error it returned
FetchDataViewsCall(p, outs) ==
    [op |-> "FetchDataViews", outs |-> outs,
     requests |-> FetchDataViews_Requests(p),
     recs |-> FetchDataViews(p, outs).recs, err |-> FetchDataViews(p, outs).err]

\* a call of GetCapabilities and the value it returned
CapabilitiesCall(p) ==
    [op |-> "GetCapabilities", caps |-> GetCapabilities(p)]

(***************************************************************************)
(* The integrations on their own: ValidateConnection, FetchDataViews and   *)
(* GetCapabilities on a constructed provider; trace holds the latest call. *)
(***************************************************************************)
s_admin ==
    <<"a", "d", "m", "i", "n">>

s_s3cret ==
    <<"s", "3", "c", "r", "e", "t">>

\* the auth sections of the providers: absent, one per type, one with every
\* field filled, and types the gate would not have let through
\* endpoints of the cloud-workspace integration: 7 segments in the path, 8
\* with a "/" at the end, 10, and 8 under other names
SentinelEndpoints ==
    {<<"h", "t", "t", "p", "s", ":", "/", "/", "m", "a", "n", "a", "g", "e", "m", "e", "n", "t", ".", "a", "z", "u", "r", "e", ".", "c", "o", "m", "/", "s", "u", "b", "s", "c", "r", "i", "p", "t", "i", "o", "n", "s", "/", "s", "1", "/", "r", "e", "s", "o", "u", "r", "c", "e", "G", "r", "o", "u", "p", "s", "/", "r", "g", "/", "p", "r", "o", "v", "i", "d", "e", "r", "s", "/", "M", "i", "c", "r", "o", "s", "o", "f", "t", ".", "O", "p", "e", "r", "a", "t", "i", "o", "n", "a", "l", "I", "n", "s", "i", "g", "h", "t", "s", "/", "w", "o", "r", "k", "s", "p", "a", "c", "e", "s">>,
     <<"h", "t", "t", "p", "s", ":", "/", "/", "m", "a", "n", "a", "g", "e", "m", "e", "n", "t", ".", "a", "z", "u", "r", "e", ".", "c", "o", "m", "/", "s", "u", "b", "s", "c", "r", "i", "p", "t", "i", "o", "n", "s", "/", "s", "1", "/", "r", "e", "s", "o", "u", "r", "c", "e", "G", "r", "o", "u", "p", "s", "/", "r", "g", "/", "p", "r", "o", "v", "i", "d", "e", "r", "s", "/", "M", "i", "c", "r", "o", "s", "o", "f", "t", ".", "O", "p", "e", "r", "a", "t", "i", "o", "n", "a", "l", "I", "n", "s", "i", "g", "h", "t", "s", "/", "w", "o", "r", "k", "s", "p", "a", "c", "e", "s", "/", "w", "s", "/">>,
     <<"h", "t", "t", "p", "s", ":", "/", "/", "m", "a", "n", "a", "g", "e", "m", "e", "n", "t", ".", "a", "z", "u", "r", "e", ".", "c", "o", "m", "/", "s", "u", "b", "s", "c", "r", "i", "p", "t", "i", "o", "n", "s", "/", "s", "1", "/", "r", "e", "s", "o", "u", "r", "c", "e", "G", "r", "o", "u", "p", "s", "/", "r", "g", "/", "p", "r", "o", "v", "i", "d", "e", "r", "s", "/", "M", "i", "c", "r", "o", "s", "o", "f", "t", ".", "O", "p", "e", "r", "a", "t", "i", "o", "n", "a", "l", "I", "n", "s", "i", "g", "h", "t", "s", "/", "w", "o", "r", "k", "s", "p", "a", "c", "e", "s", "/", "w", "s", "/", "t", "a", "b", "l", "e", "s", "/", "t", "1">>,
     <<"h", "t", "t", "p", "s", ":", "/", "/", "p", "o", "r", "t", "a", "l", ".", "e", "x", "a", "m", "p", "l", "e", ".", "c", "o", "m", "/", "a", "/", "s", "u", "b", "-", "2", "/", "b", "/", "r", "g", "-", "2", "/", "c", "/", "d", "/", "e", "/", "w", "s", "-", "2">>}

FetchAuths ==
    { NilAuth,
      AuthConfig(s_basic, s_admin, s_s3cret, <<>>, <<>>),
      AuthConfig(s_bearer, <<>>, <<>>, <<"t", "o", "k">>, <<>>),
      AuthConfig(s_api_key, <<>>, <<>>, <<>>, <<"k", "e", "y", "1">>),
      AuthConfig(s_basic, s_admin, s_s3cret, <<"t", "o", "k">>, <<"k", "e", "y", "1">>),
      AuthConfig(s_api_key, s_admin, s_s3cret, <<"t", "o", "k">>, <<"k", "e", "y", "1">>),
      AuthConfig(s_bearer, <<>>, <<>>, <<>>, <<>>),
      AuthConfig(<<"o", "a", "u", "t", "h">>, <<>>, <<>>, <<"t", "o", "k">>, <<>>) }

FetchProviders ==
    {Factory("NewElasticsearchProvider",
             ProviderConfig(s_elasticsearch, <<"h", "t", "t", "p", "s", ":", "/", "/", "s", "i", "e", "m", ".", "e", "x", "a", "m", "p", "l", "e", ".", "c", "o", "m", ":", "9", "2", "0", "0">>, a)) :
        a \in FetchAuths}
    \cup {Factory("NewSplunkProvider",
                  ProviderConfig(s_splunk, <<"h", "t", "t", "p", ":", "/", "/", "l", "o", "c", "a", "l", "h", "o", "s", "t", ":", "8", "0", "8", "9">>, a)) : a \in FetchAuths}
    \cup {Factory("NewSentinelProvider", ProviderConfig(s_sentinel, AzureEndpoint, a)) :
            a \in FetchAuths}
    \cup {Factory("NewSentinelProvider",
                  ProviderConfig(s_sentinel, <<"h", "t", "t", "p", "s", ":", "/", "/", "m", "a", "n", "a", "g", "e", "m", "e", "n", "t", ".", "a", "z", "u", "r", "e", ".", "c", "o", "m", "/", "s", "u", "b", "s", "c", "r", "i", "p", "t", "i", "o", "n", "s", "/", "s", "1">>,
                                 NilAuth))}
    \cup {Factory("NewQRadarProvider",
                  ProviderConfig(s_qradar, <<"h", "t", "t", "p", "s", ":", "/", "/", "q", "r", "a", "d", "a", "r", ".", "e", "x", "a", "m", "p", "l", "e", ".", "c", "o", "m">>, a)) :
            a \in FetchAuths}
    \cup {Factory("NewSentinelProvider", ProviderConfig(s_sentinel, e, NilAuth)) :
            e \in SentinelEndpoints}
    \cup {Factory(providersInit[t],
                  [ProviderConfig(t, <<"h", "t", "t", "p", "s", ":", "/", "/", "s", "i", "e", "m", ".", "e", "x", "a", "m", "p", "l", "e", ".", "c", "o", "m", "/">>, NilAuth)
                        EXCEPT !.Retries = r]) :
            t \in {s_elasticsearch, s_splunk, s_qradar}, r \in {0, 5}}

FetchInit ==
    /\ pc = "fetch"
    /\ provider \in FetchProviders
    /\ cfg = provider.config
    /\ trace = <<>>
    /\ dryRun = FALSE
    /\ airgap = FALSE
    /\ showVersion = FALSE
    /\ providerName = <<>>
    /\ registry = providersInit
    /\ subq = <<>>
    /\ fetched = NoResult
    /\ inventory = NoInventory
    /\ exit = "running"
    /\ fs = NoFS

FetchCall ==
    /\ pc = "fetch"
    /\ fetched = NoResult
    /\ \E outs \in FetchOutcomes(provider) :
        /\ subq' = outs
        /\ fetched' = FetchDataViews(provider, outs)
        /\ trace' = <<FetchDataViewsCall(provider, outs)>>
    /\ UNCHANGED <<pc, cfg, dryRun, airgap, showVersion, providerName, registry,
                   provider, inventory, exit, fs>>

FetchProbe ==
    /\ pc = "fetch"
    /\ \E out \in ProbeOutcomes :
        trace' = <<ConnectionCall(provider, out)>>
    /\ UNCHANGED <<pc, cfg, dryRun, airgap, showVersion, providerName, registry,
                   provider, subq, fetched, inventory, exit, fs>>

FetchCapabilities ==
    /\ pc = "fetch"
    /\ trace' = <<CapabilitiesCall(provider)>>
    /\ UNCHANGED <<pc, cfg, dryRun, airgap, showVersion, providerName, registry,
                   provider, subq, fetched, inventory, exit, fs>>

FetchNext ==
    \/ FetchCall
    \/ FetchProbe
    \/ FetchCapabilities

SpecFetch ==
    FetchInit /\ [][FetchNext]_vars

\* the records a successful sub-query contributes
Converted(out, sourceType) ==
    [i \in 1..Len(out.hits) |->
        Elasticsearch_convertToDataSource(provider, out.hits[i], sourceType)]

\* C1: the index-store FetchDataViews fails exactly when both sub-queries
\* fail, and then returns no records and the error of the last one; when
\* one fails and the other returns N records it returns those N records.
C1_PartialFailure ==
    (fetched # NoResult /\ provider.factory = "NewElasticsearchProvider") =>
        LET ip == subq[1]
            dv == subq[2]
            ipFails == ip.kind # "ok"
            dvFails == dv.kind # "ok"
        IN  /\ (fetched.err # NoErr) <=> (ipFails /\ dvFails)
            /\ (ipFails /\ ~dvFails) =>
                    (fetched.err = NoErr /\ fetched.recs = Converted(dv, "data-view"))
            /\ (~ipFails /\ dvFails) =>
                    (fetched.err = NoErr /\ fetched.recs = Converted(ip, "index-pattern"))
            /\ (ipFails /\ dvFails) =>
                    /\ fetched.recs = <<>>
                    /\ fetched.err = Wrap("failed to fetch any data sources",
                                          executeSearch(provider, dv, "data-view").err)

\* the authentication header fields of a request: Authorization and SEC
AuthenticationFields(request) ==
    [h \in {k \in DOMAIN request.Header :
                EqualFold(k, s_Authorization) \/ EqualFold(k, <<"S", "E", "C">>)} |->
        request.Header[h]]

\* the one field name -> value
OnlyField(name, value) ==
    [h \in {name} |-> value]

\* the HTTP Basic credentials of username and password
BasicCredentials(username, password) ==
    <<"B", "a", "s", "i", "c", " ">> \o EncodeToString(username \o <<":">> \o password)

\* the field the per-vendor table prescribes for the api key
ApiKeyField(p) ==
    IF p.factory = "NewElasticsearchProvider"
    THEN OnlyField(s_Authorization, <<"A", "p", "i", "K", "e", "y", " ">> \o p.config.Auth.APIKey)
    ELSE IF p.factory = "NewSplunkProvider"
    THEN OnlyField(s_Authorization, <<"S", "p", "l", "u", "n", "k", " ">> \o p.config.Auth.APIKey)
    ELSE OnlyField(<<"S", "e", "c">>, p.config.Auth.APIKey)

\* C12: every request of the index-store, log-search and log-source-manager
\* integrations, probe and listing, carries exactly the authentication
\* field the table prescribes for auth.type (basic, bearer, api_key) and
\* no other, and none when auth is absent.
C12_AuthHeaderPerVendor ==
    \A i \in 1..Len(trace) :
        (trace[i].op \in {"ValidateConnection", "FetchDataViews"}
            /\ provider.factory # "NewSentinelProvider") =>
            /\ Len(trace[i].requests) >= 1
            /\ \A r \in 1..Len(trace[i].requests) :
                LET auth == provider.config.Auth
                    sent == AuthenticationFields(trace[i].requests[r])
                IN  IF auth = NilAuth THEN sent = NoHeader
                    ELSE /\ auth.Type = s_basic =>
                                sent = OnlyField(s_Authorization,
                                                 BasicCredentials(auth.Username, auth.Password))
                         /\ auth.Type = s_bearer =>
                                sent = OnlyField(s_Authorization, <<"B", "e", "a", "r", "e", "r", " ">> \o auth.Token)
                         /\ auth.Type = s_api_key => sent = ApiKeyField(provider)

\* the log-search integration listed its indexes with an api key, every
\* other credential being configured too
C12_Witness ==
    \E i \in 1..Len(trace) :
        /\ trace[i].op = "FetchDataViews"
        /\ provider.factory = "NewSplunkProvider"
        /\ provider.config.Auth # NilAuth
        /\ provider.config.Auth.Type = s_api_key
        /\ provider.config.Auth.Token # <<>>
        /\ AuthenticationFields(trace[i].requests[1])
             = OnlyField(s_Authorization, <<"S", "p", "l", "u", "n", "k", " ", "k", "e", "y", "1">>)

\* the log-source-manager probed with the basic credentials admin / s3cret
C12_WitnessBasic ==
    \E i \in 1..Len(trace) :
        /\ trace[i].op = "ValidateConnection"
        /\ provider.factory = "NewQRadarProvider"
        /\ provider.config.Auth # NilAuth
        /\ provider.config.Auth.Type = s_basic
        /\ AuthenticationFields(trace[i].requests[1])
             = OnlyField(s_Authorization, <<"B", "a", "s", "i", "c", " ", "Y", "W", "R", "t", "a", "W", "4", "6", "c", "z", "N", "j", "c", "m", "V", "0">>)

\* C13: the cloud-workspace integration sends Authorization: Bearer <token>
\* when auth.type is bearer and whenever auth is present with a non-empty
\* token; it sends no other authentication field, and none when auth is
\* absent or a non-bearer type has an empty token.
C13_SentinelBearerFallback ==
    \A i \in 1..Len(trace) :
        (trace[i].op \in {"ValidateConnection", "FetchDataViews"}
            /\ provider.factory = "NewSentinelProvider") =>
            \A r \in 1..Len(trace[i].requests) :
                LET auth == provider.config.Auth
                    sent == AuthenticationFields(trace[i].requests[r])
                IN  IF auth = NilAuth THEN sent = NoHeader
                    ELSE IF auth.Type = s_bearer \/ auth.Token # <<>>
                    THEN sent = OnlyField(s_Authorization, <<"B", "e", "a", "r", "e", "r", " ">> \o auth.Token)
                    ELSE sent = NoHeader

\* the cloud-workspace integration listed its tables with auth.type basic,
\* a username, a password and a token, and sent the token as a bearer
C13_Witness ==
    \E i \in 1..Len(trace) :
        /\ trace[i].op = "FetchDataViews"
        /\ provider.factory = "NewSentinelProvider"
        /\ provider.config.Auth # NilAuth
        /\ provider.config.Auth.Type = s_basic
        /\ provider.config.Auth.Password # <<>>
        /\ Len(trace[i].requests) = 1
        /\ AuthenticationFields(trace[i].requests[1])
             = OnlyField(s_Authorization, <<"B", "e", "a", "r", "e", "r", " ", "t", "o", "k">>)

\* C14: when the run's context is cancelled during a request of
\* ValidateConnection or FetchDataViews, the operation returns an error,
\* and FetchDataViews returns no records, for every integration and
\* whichever request it arrives in.
C14_CancellationPropagates ==
    \A i \in 1..Len(trace) :
        (/\ trace[i].op \in {"ValidateConnection", "FetchDataViews"}
         /\ Len(trace[i].requests) >= 1
         /\ \E k \in 1..Len(trace[i].outs) : trace[i].outs[k].kind = "cancelled")
        => /\ trace[i].err # NoErr
           /\ trace[i].recs = <<>>

\* C15: FetchDataViews of the log-search, cloud-workspace and
\* log-source-manager integrations returns an error and no records when its
\* listing request meets a transport failure, a status other than 200 or a
\* body that does not decode; ValidateConnection of all four returns an
\* error when its probe meets a transport failure or a status other than 200.
C15_FailuresAreHard ==
    \A i \in 1..Len(trace) :
        /\ (/\ trace[i].op = "FetchDataViews"
            /\ provider.factory # "NewElasticsearchProvider"
            /\ trace[i].outs[1].kind \in {"transport", "cancelled", "status", "decode"})
           => (trace[i].err # NoErr /\ trace[i].recs = <<>>)
        /\ (/\ trace[i].op = "ValidateConnection"
            /\ trace[i].outs[1].kind \in {"transport", "cancelled", "status"})
           => trace[i].err # NoErr

\* the log-source-manager's listing was answered with a body that does not
\* decode, and the call returned an error
C15_Witness ==
    \E i \in 1..Len(trace) :
        /\ trace[i].op = "FetchDataViews"
        /\ provider.factory = "NewQRadarProvider"
        /\ trace[i].outs[1].kind = "decode"
        /\ trace[i].err # NoErr

\* other values for the secrets of an auth section
OtherSecrets ==
    {<<>>, <<"h", "u", "n", "t", "e", "r", "2">>}

\* the provider p with its password, token and api key replaced
WithSecrets(p, password, token, apiKey) ==
    [p EXCEPT !.config.Auth.Password = password,
              !.config.Auth.Token = token,
              !.config.Auth.APIKey = apiKey]

\* C16: the records a fetch returns do not depend on the secrets: the same
\* provider with any other password, token and api key, given the same
\* responses, returns the same records, metadata included.
C16_RecordsIndependentOfSecrets ==
    \A i \in 1..Len(trace) :
        (trace[i].op = "FetchDataViews" /\ provider.config.Auth # NilAuth) =>
            \A password \in OtherSecrets, token \in OtherSecrets, apiKey \in OtherSecrets :
                FetchDataViews(WithSecrets(provider, password, token, apiKey),
                               trace[i].outs).recs = trace[i].recs

\* a fetch with an api key configured returned two records with metadata
C16_Witness ==
    \E i \in 1..Len(trace) :
        /\ trace[i].op = "FetchDataViews"
        /\ provider.config.Auth # NilAuth
        /\ provider.config.Auth.APIKey # <<>>
        /\ Len(trace[i].recs) = 2
        /\ \A k \in 1..2 : trace[i].recs[k].Metadata # NilMap

\* C17: GetCapabilities is instance-independent: every instance of the same
\* vendor integration returns the same ProviderCapabilities value, whatever
\* configuration it was constructed with.
C17_CapabilitiesStatic ==
    \A i \in 1..Len(trace) :
        trace[i].op = "GetCapabilities" =>
            \A p \in FetchProviders :
                p.factory = provider.factory => GetCapabilities(p) = trace[i].caps

\* C22: ValidateConnection issues at most one request; FetchDataViews at
\* most one, and for the index-store at most two, one per sub-query; no call
\* issues more requests than the outcomes it met, whatever config.Retries is
\* and whether the requests failed or not.
C22_NoRetries ==
    \A i \in 1..Len(trace) :
        trace[i].op \in {"ValidateConnection", "FetchDataViews"} =>
            /\ Len(trace[i].requests) <= Len(trace[i].outs)
            /\ trace[i].op = "ValidateConnection" => Len(trace[i].requests) <= 1
            /\ (trace[i].op = "FetchDataViews"
                    /\ provider.factory # "NewElasticsearchProvider")
                    => Len(trace[i].requests) <= 1
            /\ (trace[i].op = "FetchDataViews"
                    /\ provider.factory = "NewElasticsearchProvider")
                    => /\ Len(trace[i].requests) <= 2
                       /\ \A a, b \in 1..Len(trace[i].requests) :
                            trace[i].requests[a] = trace[i].requests[b] => a = b

\* a listing request failed on a provider configured with five retries, and
\* one request was issued
C22_Witness ==
    \E i \in 1..Len(trace) :
        /\ trace[i].op = "FetchDataViews"
        /\ provider.config.Retries = 5
        /\ trace[i].outs[1].kind \in FailureKinds
        /\ trace[i].err # NoErr
        /\ Len(trace[i].requests) = 1

\* the "/"-delimited segments of the path of endpoint, the "/" at its start
\* and at its end left out: the path is what follows the authority
PathSegments(endpoint) ==
    LET seps == {i \in 1..(Len(endpoint) - 2) : SubSeq(endpoint, i, i + 2) = <<":", "/", "/">>}
        from == Min(seps) + 3 + Len(Authority(endpoint))
        path == SubSeq(endpoint, from, Len(endpoint))
        names == {i \in 1..Len(path) : path[i] # "/"}
        text == SubSeq(path, Min(names), Max(names))
        cuts == {i \in 1..Len(text) : text[i] = "/"}
        cut(k) == IF k = 0 THEN 0
                  ELSE IF k > Cardinality(cuts) THEN Len(text) + 1
                  ELSE CHOOSE c \in cuts : Cardinality({d \in cuts : d <= c}) = k
    IN  IF names = {} THEN <<<<>>>>
        ELSE [k \in 1..(Cardinality(cuts) + 1) |->
                SubSeq(text, cut(k - 1) + 1, cut(k) - 1)]

C24_WitnessShort ==
    \E i \in 1..Len(trace) :
        /\ trace[i].op = "ValidateConnection"
        /\ provider.factory = "NewSentinelProvider"
        /\ Len(PathSegments(provider.config.Endpoint)) = 7
        /\ trace[i].err # NoErr

\* C26: when both sub-queries of the index-store succeed with P and V hits,
\* FetchDataViews returns P + V records: the index-pattern hits converted, in
\* the order of the response, then the data-view hits converted, each with
\* the type of its sub-query and none dropped for sharing an id; and the
\* data-view sub-query is issued whatever the index-pattern sub-query met.
C26_BothSubQueries ==
    \A i \in 1..Len(trace) :
        (trace[i].op = "FetchDataViews"
            /\ provider.factory = "NewElasticsearchProvider") =>
            LET ip == trace[i].outs[1]
                dv == trace[i].outs[2]
                P == Len(ip.hits)
                V == Len(dv.hits)
            IN  /\ Len(trace[i].requests) = 2
                /\ trace[i].requests[2].Body.query.term.type = "data-view"
                /\ (ip.kind = "ok" /\ dv.kind = "ok") =>
                    /\ trace[i].err = NoErr
                    /\ Len(trace[i].recs) = P + V
                    /\ \A k \in 1..P :
                        /\ trace[i].recs[k].ID = ip.hits[k].ID
                        /\ trace[i].recs[k].Type = "index-pattern"
                        /\ trace[i].recs[k] = Converted(ip, "index-pattern")[k]
                    /\ \A k \in 1..V :
                        /\ trace[i].recs[P + k].ID = dv.hits[k].ID
                        /\ trace[i].recs[P + k].Type = "data-view"
                        /\ trace[i].recs[P + k] = Converted(dv, "data-view")[k]

\* both sub-queries succeeded with two hits each, and a hit of the one has
\* the id of a hit of the other
C26_Witness ==
    \E i \in 1..Len(trace) :
        /\ trace[i].op = "FetchDataViews"
        /\ provider.factory = "NewElasticsearchProvider"
        /\ trace[i].outs[1].kind = "ok"
        /\ trace[i].outs[2].kind = "ok"
        /\ Len(trace[i].outs[1].hits) = 2
        /\ Len(trace[i].outs[2].hits) = 2
        /\ trace[i].outs[1].hits[1].ID = trace[i].outs[2].hits[2].ID
        /\ trace[i].outs[1].hits[1].ID # trace[i].outs[1].hits[2].ID

(***************************************************************************)
(* The converters on their own: convertToDataSource of a provider on one   *)
(* record of a decoded response; trace holds the latest call.              *)
(***************************************************************************)
ConvertProviders ==
    {p \in FetchProviders :
        /\ p.config.Auth \in {NilAuth, AuthConfig(s_api_key, <<>>, <<>>, <<>>, <<"k", "e", "y", "1">>)}
        /\ p.factory = "NewSentinelProvider" => p.config.Endpoint = AzureEndpoint}

\* the attribute maps of a hit: absent, a title, a title that is no string
\* with a time field, and a map without either
ESAttributes ==
    { NilMap,
      [title |-> JString("logs-*")],
      [title |-> JNumber(1), timeFieldName |-> JString("@timestamp")],
      [fields |-> JString("[]")] }

\* the records the converter of p is given: for the index-store a hit and
\* the kind of the query, for the cloud-workspace a table and the workspace
\* name, for the others a record
ConvertInputs(p) ==
    IF p.factory = "NewElasticsearchProvider"
    THEN {<<ESHit("a", "index-pattern", ip, dv, u), sourceType>> :
            ip \in ESAttributes,
            dv \in {NilMap, [title |-> JString("metrics-*"),
                             timeFieldName |-> JString("ts")]},
            u \in {"", "2024-01-02T03:04:05Z", "yesterday"},
            sourceType \in {"index-pattern", "data-view"}}
    ELSE IF p.factory = "NewSplunkProvider"
    THEN {<<SplunkEntry(name, isInternal, minTime)>> :
            name \in {"main", "_internal"},
            isInternal \in {"1", "0", ""},
            minTime \in {"", "0", "2024-01-02T03:04:05.000+00:00", "yesterday"}}
    ELSE IF p.factory = "NewSentinelProvider"
    THEN {<<SentinelTable("/tables/" \o name, name, plan, columns),
            parseWorkspaceFromEndpoint(p.config).info.workspaceName>> :
            name \in {"SecurityEvent", "Custom_CL", "CL"},
            plan \in {"Analytics", "Basic"},
            columns \in {<<>>, <<[Name |-> "TimeGenerated", Type |-> "datetime",
                                  Description |-> ""]>>}}
    ELSE {<<QRadarLogSource(7, enabled, internal, gateway, autoDiscovered,
                            creationDate, lastEventTime, messages)>> :
            enabled \in BOOLEAN, internal \in BOOLEAN, gateway \in BOOLEAN,
            autoDiscovered \in BOOLEAN, creationDate \in {0, 86400999},
            lastEventTime \in {0, 86400999}, messages \in {<<>>, <<"ok">>}}

\* convertToDataSource of the provider p
convertToDataSource(p, in) ==
    IF p.factory = "NewElasticsearchProvider"
    THEN Elasticsearch_convertToDataSource(p, in[1], in[2])
    ELSE IF p.factory = "NewSplunkProvider" THEN Splunk_convertToDataSource(p, in[1])
    ELSE IF p.factory = "NewSentinelProvider"
    THEN Sentinel_convertToDataSource(p, in[1], in[2])
    ELSE QRadar_convertToDataSource(p, in[1])

\* a call of convertToDataSource: the record given and the DataSource returned
ConvertCall(p, in) ==
    [op |-> "convertToDataSource", record |-> in[1], result |-> convertToDataSource(p, in)]

ConvertInit ==
    /\ pc = "convert"
    /\ provider \in ConvertProviders
    /\ cfg = provider.config
    /\ trace = <<>>
    /\ dryRun = FALSE
    /\ airgap = FALSE
    /\ showVersion = FALSE
    /\ providerName = <<>>
    /\ registry = providersInit
    /\ subq = <<>>
    /\ fetched = NoResult
    /\ inventory = NoInventory
    /\ exit = "running"
    /\ fs = NoFS

ConvertRecord ==
    /\ pc = "convert"
    /\ \E in \in ConvertInputs(provider) :
        trace' = <<ConvertCall(provider, in)>>
    /\ UNCHANGED <<pc, cfg, dryRun, airgap, showVersion, providerName, registry,
                   provider, subq, fetched, inventory, exit, fs>>

ConvertNext ==
    ConvertRecord

SpecConvert ==
    ConvertInit /\ [][ConvertNext]_vars

\* C18: the log-source-manager converter maps enabled to the status
\* "enabled" / "disabled" and builds the tags in the order "qradar", then
\* "internal" or "external", then "gateway" if gateway, then
\* "auto-discovered" if auto_discovered; the record enabled=false,
\* internal=true, gateway=false, auto_discovered=true gives status
\* "disabled" and tags ["qradar", "internal", "auto-discovered"].
C18_QRadarStatusAndTags ==
    \A i \in 1..Len(trace) :
        (trace[i].op = "convertToDataSource" /\ provider.factory = "NewQRadarProvider") =>
            LET r == trace[i].record
                ds == trace[i].result
                n == 2 + (IF r.Gateway THEN 1 ELSE 0) + (IF r.AutoDiscovered THEN 1 ELSE 0)
            IN  /\ r.Enabled => ds.Status = "enabled"
                /\ ~r.Enabled => ds.Status = "disabled"
                /\ Len(ds.Tags) = n
                /\ ds.Tags[1] = "qradar"
                /\ ds.Tags[2] = IF r.Internal THEN "internal" ELSE "external"
                /\ r.Gateway => ds.Tags[3] = "gateway"
                /\ r.AutoDiscovered => ds.Tags[n] = "auto-discovered"
                /\ (~r.Enabled /\ r.Internal /\ ~r.Gateway /\ r.AutoDiscovered) =>
                        /\ ds.Status = "disabled"
                        /\ ds.Tags = <<"qradar", "internal", "auto-discovered">>

\* the record of scenario C was converted
C18_Witness ==
    \E i \in 1..Len(trace) :
        /\ trace[i].op = "convertToDataSource"
        /\ provider.factory = "NewQRadarProvider"
        /\ trace[i].record = ScenarioC
        /\ trace[i].result.Status = "disabled"
        /\ trace[i].result.Tags = <<"qradar", "internal", "auto-discovered">>

\* a record with gateway and auto_discovered both set was converted
C18_WitnessAllTags ==
    \E i \in 1..Len(trace) :
        /\ trace[i].op = "convertToDataSource"
        /\ provider.factory = "NewQRadarProvider"
        /\ trace[i].record.Gateway
        /\ trace[i].record.AutoDiscovered
        /\ Len(trace[i].result.Tags) = 4

(***************************************************************************)
(* The constructors on their own: NewProvider called up to MaxInstances    *)
(* times in one process.  Each call allocates its client, and its          *)
(* transport if it configures one; an object is named by its type and the  *)
(* number of the call that allocated it.  A client without a transport     *)
(* sends through http.DefaultTransport, the one transport of the process.  *)
(***************************************************************************)
DefaultTransport ==
    <<"http.DefaultTransport", 0>>

\* the configurations of the instances: every vendor, without a TLS section
\* and with each of its settings
ConstructConfigs ==
    {[ProviderConfig(t, <<"h", "t", "t", "p", "s", ":", "/", "/", "s", "i", "e", "m", ".", "e", "x", "a", "m", "p", "l", "e", ".", "c", "o", "m", ":", "9", "2", "0", "0">>, NilAuth) EXCEPT !.TLS = tls] :
        t \in {s_elasticsearch, s_splunk, s_sentinel, s_qradar},
        tls \in {NilTLS} \cup {TLSConfig(e, i) : e \in BOOLEAN, i \in BOOLEAN}}

\* the n-th call of NewProvider: the instance, the client it allocated and
\* the transport its requests go through
ConstructCall(n, res) ==
    [op |-> "NewProvider", provider |-> res.provider, err |-> res.err,
     client |-> <<"http.Client", n>>,
     transport |-> IF res.provider.client.Transport = NilTransport
                   THEN DefaultTransport
                   ELSE <<"http.Transport", n>>]

ConstructInit ==
    /\ pc = "construct"
    /\ registry = providersInit
    /\ trace = <<>>
    /\ cfg = ScenarioA
    /\ dryRun = FALSE
    /\ airgap = FALSE
    /\ showVersion = FALSE
    /\ providerName = <<>>
    /\ provider = NilProvider
    /\ subq = <<>>
    /\ fetched = NoResult
    /\ inventory = NoInventory
    /\ exit = "running"
    /\ fs = NoFS

ConstructProvider ==
    /\ pc = "construct"
    /\ Len(trace) < MaxInstances
    /\ \E config \in ConstructConfigs, available \in getAvailableProviders(registry) :
        LET res == NewProvider(registry, config, available)
        IN  /\ provider' = res.provider
            /\ trace' = Append(trace, ConstructCall(Len(trace) + 1, res))
    /\ UNCHANGED <<pc, cfg, dryRun, airgap, showVersion, providerName, registry,
                   subq, fetched, inventory, exit, fs>>

ConstructNext ==
    ConstructProvider

SpecConstruct ==
    ConstructInit /\ [][ConstructNext]_vars

\* C25: any two instances constructed in one process have different clients
\* and send through different transports, whatever their vendors and their
\* configurations are.
C25_NoSharedTransport ==
    \A i, j \in 1..Len(trace) :
        i # j =>
            /\ trace[i].client # trace[j].client
            /\ trace[i].transport # trace[j].transport

\* certificate verification is off on the instance's client
VerificationDisabled(p) ==
    /\ p.client.Transport # NilTransport
    /\ p.client.Transport.TLSClientConfig.InsecureSkipVerify

\* C30: verification is off on an instance of the index-store, log-search or
\* log-source-manager integration exactly when the configuration has a TLS
\* section with enabled and insecure_skip_verify both true; it is never off
\* on an instance of the cloud-workspace integration.
C30_VerificationOffIffBoth ==
    \A i \in 1..Len(trace) :
        LET p == trace[i].provider
        IN  IF p.factory = "NewSentinelProvider"
            THEN ~VerificationDisabled(p)
            ELSE VerificationDisabled(p) <=>
                    /\ p.config.TLS # NilTLS
                    /\ p.config.TLS.Enabled
                    /\ p.config.TLS.InsecureSkipVerify

\* an instance with insecure_skip_verify = true and enabled = false, and a
\* cloud-workspace instance with both true
C30_Witness ==
    \E i, j \in 1..Len(trace) :
        /\ trace[i].provider.factory = "NewSplunkProvider"
        /\ trace[i].provider.config.TLS = TLSConfig(FALSE, TRUE)
        /\ trace[j].provider.factory = "NewSentinelProvider"
        /\ trace[j].provider.config.TLS = TLSConfig(TRUE, TRUE)

\* an instance with verification off
C30_WitnessOff ==
    \E i \in 1..Len(trace) :
        /\ trace[i].provider.factory = "NewQRadarProvider"
        /\ VerificationDisabled(trace[i].provider)

(***************************************************************************)
(* The endpoint as main displays it: sanitizeEndpoint of package main.     *)
(***************************************************************************)
\* strings.Index: the index of the first instance of substr in s, 0 if
\* there is none (Go counts from 0 and gives -1)
Index(s, substr) ==
    LET at == {i \in 1..(Len(s) - Len(substr) + 1) :
                    SubSeq(s, i, i + Len(substr) - 1) = substr}
    IN  IF at = {} THEN 0 ELSE Min(at)

s_REDACTED ==
    <<"[", "R", "E", "D", "A", "C", "T", "E", "D", "]">>

\* sanitizeEndpoint (package main): endpoint[:schemeIdx+3] + "[REDACTED]" +
\* endpoint[idx:], with idx the first "@" and schemeIdx the first "://"
main_sanitizeEndpoint(endpoint) ==
    LET idx == Index(endpoint, <<"@">>)
        schemeIdx == Index(endpoint, <<":", "/", "/">>)
    IN  IF idx # 0 /\ schemeIdx # 0
        THEN SubSeq(endpoint, 1, schemeIdx + 2) \o s_REDACTED
                \o SubSeq(endpoint, idx, Len(endpoint))
        ELSE endpoint

\* the endpoints displayed: scheme, user name, password and the rest; with
\* no user name the endpoint carries no credentials
DisplaySchemes ==
    {<<"h", "t", "t", "p", "s", ":", "/", "/">>, <<"h", "t", "t", "p", ":", "/", "/">>, <<"H", "T", "T", "P", "S", ":", "/", "/">>}

DisplayUsers ==
    {<<>>, <<"u", "s", "e", "r">>, <<"a", "d", "m", "i", "n">>, <<"s", "v", "c", ".", "l", "o", "g", "f", "i", "e", "n", "d">>}

DisplayPasswords ==
    {<<"p", "a", "s", "s">>, <<"s", "3", "c", "r", "e", "t">>, <<"p", "@", "s", "s">>, <<"p", "a", ":", "s", "s">>, <<"p", "/", "w">>, <<>>}

DisplayRests ==
    {<<"l", "o", "c", "a", "l", "h", "o", "s", "t", ":", "9", "2", "0", "0">>, <<"s", "i", "e", "m", ".", "e", "x", "a", "m", "p", "l", "e", ".", "c", "o", "m">>, <<"s", "i", "e", "m", ".", "e", "x", "a", "m", "p", "l", "e", ".", "c", "o", "m", "/", "a", "p", "p", "/", "k", "i", "b", "a", "n", "a">>,
     <<"s", "i", "e", "m", ".", "e", "x", "a", "m", "p", "l", "e", ".", "c", "o", "m", "/", "q", "?", "m", "a", "i", "l", "=", "a", "@", "b">>}

DisplayEndpoint(scheme, user, password, rest) ==
    IF user = <<>> THEN scheme \o rest
    ELSE scheme \o user \o <<":">> \o password \o <<"@">> \o rest

DisplayCall(scheme, user, password, rest) ==
    [op |-> "sanitizeEndpoint", scheme |-> scheme, user |-> user,
     password |-> password, rest |-> rest,
     endpoint |-> DisplayEndpoint(scheme, user, password, rest),
     out |-> main_sanitizeEndpoint(DisplayEndpoint(scheme, user, password, rest))]

DisplayInit ==
    /\ pc = "display"
    /\ trace = <<>>
    /\ cfg = ScenarioA
    /\ dryRun = TRUE
    /\ airgap = FALSE
    /\ showVersion = FALSE
    /\ providerName = <<>>
    /\ registry = providersInit
    /\ provider = NilProvider
    /\ subq = <<>>
    /\ fetched = NoResult
    /\ inventory = NoInventory
    /\ exit = "running"
    /\ fs = NoFS

\* one endpoint is displayed
DisplaySanitize ==
    /\ pc = "display"
    /\ \E scheme \in DisplaySchemes, user \in DisplayUsers,
          password \in DisplayPasswords, rest \in DisplayRests :
        trace' = <<DisplayCall(scheme, user, password, rest)>>
    /\ UNCHANGED <<pc, cfg, dryRun, airgap, showVersion, providerName, registry,
                   provider, subq, fetched, inventory, exit, fs>>

DisplayNext ==
    DisplaySanitize

SpecDisplay ==
    DisplayInit /\ [][DisplayNext]_vars

\* C21: for an endpoint with user:password between "://" and "@" the text
\* displayed differs from the endpoint and is the endpoint with the whole of
\* user:password replaced by the marker, so that no part of either is left;
\* an endpoint without "@" is displayed unchanged.
C21_NoCredentialsDisplayed ==
    \A i \in 1..Len(trace) :
        trace[i].op = "sanitizeEndpoint" =>
            /\ trace[i].user # <<>> =>
                /\ trace[i].out # trace[i].endpoint
                /\ trace[i].out =
                      trace[i].scheme \o s_REDACTED \o <<"@">> \o trace[i].rest
            /\ "@" \notin Range(trace[i].endpoint) => trace[i].out = trace[i].endpoint

(***************************************************************************)
(* The output path: validateOutputPath and writeOutputSafely, with the     *)
(* file system as os.MkdirAll and os.WriteFile see it.  A path is the      *)
(* sequence of its characters; the separator is "/".                       *)
(***************************************************************************)
s_dot ==
    <<".">>

s_dotdot ==
    <<".", ".">>

\* the elements of parts joined with "/"
RECURSIVE Join(_)
Join(parts) ==
    IF Len(parts) = 0 THEN <<>>
    ELSE IF Len(parts) = 1 THEN parts[1]
    ELSE parts[1] \o <<"/">> \o Join(Tail(parts))

\* the elements filepath.Clean keeps: empty elements and "." are dropped,
\* ".." removes the element before it, is dropped at the root, and is kept
\* at the start of a relative path
RECURSIVE CleanParts(_, _, _)
CleanParts(parts, out, rooted) ==
    IF Len(parts) = 0 THEN out
    ELSE IF Head(parts) = <<>> \/ Head(parts) = s_dot
    THEN CleanParts(Tail(parts), out, rooted)
    ELSE IF Head(parts) = s_dotdot
    THEN IF Len(out) > 0 /\ out[Len(out)] # s_dotdot
         THEN CleanParts(Tail(parts), SubSeq(out, 1, Len(out) - 1), rooted)
         ELSE IF rooted
         THEN CleanParts(Tail(parts), out, rooted)
         ELSE CleanParts(Tail(parts), Append(out, s_dotdot), rooted)
    ELSE CleanParts(Tail(parts), Append(out, Head(parts)), rooted)

\* filepath.Clean
Clean(path) ==
    LET rooted == Len(path) > 0 /\ path[1] = "/"
        body == Join(CleanParts(Split(path), <<>>, rooted))
    IN  IF rooted THEN <<"/">> \o body
        ELSE IF body = <<>> THEN s_dot
        ELSE body

\* filepath.IsAbs
IsAbs(path) ==
    HasPrefix(path, <<"/">>)

\* filepath.Base
Base(path) ==
    LET names == {i \in 1..Len(path) : path[i] # "/"}
        last == Max(names)
        slashes == {i \in 1..last : path[i] = "/"}
    IN  IF path = <<>> THEN s_dot
        ELSE IF names = {} THEN <<"/">>
        ELSE SubSeq(path, IF slashes = {} THEN 1 ELSE Max(slashes) + 1, last)

\* filepath.Dir: the path up to its last separator, cleaned
Dir(path) ==
    LET slashes == {i \in 1..Len(path) : path[i] = "/"}
    IN  Clean(SubSeq(path, 1, IF slashes = {} THEN 0 ELSE Max(slashes)))

\* validateOutputPath
validateOutputPath(path) ==
    LET cleanPath == Clean(path)
    IN  IF IsAbs(cleanPath)
        THEN Errorf("absolute paths not allowed for security")
        ELSE IF /\ Base(cleanPath) # cleanPath
                /\ Dir(cleanPath) # s_dot
                /\ Dir(cleanPath) # <<"o", "u", "t", "p", "u", "t">>
        THEN Errorf("path traversal not allowed")
        ELSE NoErr

\* permission bits: 0600, 0644, 0400, 0755, 0555, and the umasks 022 and 077
Perm0600 ==
    {"ur", "uw"}

Perm0644 ==
    {"ur", "uw", "gr", "or"}

Perm0400 ==
    {"ur"}

Perm0755 ==
    {"ur", "uw", "ux", "gr", "gx", "or", "ox"}

Perm0555 ==
    {"ur", "ux", "gr", "gx", "or", "ox"}

Umask022 ==
    {"gw", "ow"}

Umask077 ==
    {"gr", "gw", "gx", "or", "ow", "ox"}

\* what a path names: nothing, a directory, a regular file
Absent ==
    [kind |-> "absent"]

Directory(mode) ==
    [kind |-> "dir", mode |-> mode]

File(mode, content) ==
    [kind |-> "file", mode |-> mode, content |-> content]

\* os.MkdirAll(path, perm) by a process that owns the nodes and is not root:
\* nothing to do on a directory, an error on a file, else the parent is made
\* and the directory created in it with perm less the umask
RECURSIVE MkdirAll(_, _, _)
MkdirAll(f, path, perm) ==
    LET p == Clean(path)
        parent == MkdirAll(f, Dir(p), perm)
    IN  IF f.nodes[p].kind = "dir" THEN [fs |-> f, err |-> NoErr]
        ELSE IF f.nodes[p].kind = "file"
        THEN [fs |-> f, err |-> Errorf("not a directory")]
        ELSE IF parent.err # NoErr THEN parent
        ELSE IF "uw" \notin parent.fs.nodes[Dir(p)].mode
        THEN [fs |-> parent.fs, err |-> Errorf("permission denied")]
        ELSE [fs |-> [parent.fs EXCEPT !.nodes[p] = Directory(perm \ f.umask)],
              err |-> NoErr]

\* os.WriteFile(name, data, perm): open with O_WRONLY|O_CREATE|O_TRUNC and
\* write.  An existing file is truncated and keeps its mode; a new file is
\* created with perm less the umask.
WriteFile(f, name, data, perm) ==
    LET p == Clean(name)
        d == Dir(p)
    IN  IF f.nodes[d].kind = "absent"
        THEN [fs |-> f, err |-> Errorf("no such file or directory")]
        ELSE IF f.nodes[d].kind = "file"
        THEN [fs |-> f, err |-> Errorf("not a directory")]
        ELSE IF f.nodes[p].kind = "dir"
        THEN [fs |-> f, err |-> Errorf("is a directory")]
        ELSE IF f.nodes[p].kind = "file"
        THEN IF "uw" \notin f.nodes[p].mode
             THEN [fs |-> f, err |-> Errorf("permission denied")]
             ELSE [fs |-> [f EXCEPT !.nodes[p].content = data], err |-> NoErr]
        ELSE IF "uw" \notin f.nodes[d].mode
        THEN [fs |-> f, err |-> Errorf("permission denied")]
        ELSE [fs |-> [f EXCEPT !.nodes[p] = File(perm \ f.umask, data)], err |-> NoErr]

\* writeOutputSafely: the file system it leaves and the error
writeOutputSafely(f, path, data) ==
    LET dir == Dir(path)
        made == IF dir # s_dot THEN MkdirAll(f, dir, Perm0755)
                ELSE [fs |-> f, err |-> NoErr]
    IN  IF made.err # NoErr
        THEN [fs |-> made.fs, err |-> Wrap("failed to create output directory", made.err)]
        ELSE WriteFile(made.fs, path, data, Perm0600)

\* the paths given to validateOutputPath: up to MaxPathElements elements,
\* relative and absolute, and the paths of the tests
MaxPathElements ==
    3

PathElements ==
    {s_dotdot, s_dot, <<"o", "u", "t", "p", "u", "t">>, <<"a">>, <<"i", "n", "v", "e", "n", "t", "o", "r", "y", ".", "j", "s", "o", "n">>, <<>>}

ValidatePaths ==
    LET relative == {Join(parts) : parts \in UNION {[1..n -> PathElements] : n \in 1..MaxPathElements}}
    IN  relative
        \cup {<<"/">> \o r : r \in relative}
        \cup {<<"/", "t", "m", "p", "/", "i", "n", "v", "e", "n", "t", "o", "r", "y", ".", "j", "s", "o", "n">>, <<".", ".", "/", ".", ".", "/", "e", "t", "c", "/", "p", "a", "s", "s", "w", "d">>}

\* the paths given to writeOutputSafely
WritePaths ==
    {<<"i", "n", "v", "e", "n", "t", "o", "r", "y", ".", "j", "s", "o", "n">>, <<"o", "u", "t", "p", "u", "t", "/", "i", "n", "v", "e", "n", "t", "o", "r", "y", ".", "j", "s", "o", "n">>, <<".", "/", "o", "u", "t", "p", "u", "t", "/", ".", ".", "/", "i", "n", "v", "e", "n", "t", "o", "r", "y", ".", "j", "s", "o", "n">>}

\* the file systems a write can find: the working directory, output and the
\* two files, each absent or present with one of the modes
s_output ==
    <<"o", "u", "t", "p", "u", "t">>

s_inventory ==
    <<"i", "n", "v", "e", "n", "t", "o", "r", "y", ".", "j", "s", "o", "n">>

s_output_inventory ==
    <<"o", "u", "t", "p", "u", "t", "/", "i", "n", "v", "e", "n", "t", "o", "r", "y", ".", "j", "s", "o", "n">>

FileNodes ==
    {Absent, Directory(Perm0755)}
    \cup {File(m, "old") : m \in {Perm0600, Perm0644, Perm0400}}

FileSystems ==
    UNION {{[umask |-> u,
             nodes |-> [p \in {s_dot, s_output, s_inventory, s_output_inventory} |->
                            IF p = s_dot THEN cwd
                            ELSE IF p = s_output THEN out
                            ELSE IF p = s_inventory THEN f1
                            ELSE f2]] :
                u \in {Umask022, Umask077},
                cwd \in {Directory(Perm0755), Directory(Perm0555)},
                f1 \in FileNodes,
                f2 \in IF out.kind = "dir" THEN FileNodes ELSE {Absent}} :
            out \in {Absent, Directory(Perm0755), Directory(Perm0555),
                     File(Perm0644, "old")}}

OutputInit ==
    /\ pc = "output"
    /\ fs = NoFS
    /\ cfg = ScenarioA
    /\ trace = <<>>
    /\ dryRun = FALSE
    /\ airgap = FALSE
    /\ showVersion = FALSE
    /\ providerName = <<>>
    /\ registry = providersInit
    /\ provider = NilProvider
    /\ subq = <<>>
    /\ fetched = NoResult
    /\ inventory = NoInventory
    /\ exit = "running"

\* main validates the output path first (lines 62-68)
OutputValidate ==
    /\ pc = "output"
    /\ trace = <<>>
    /\ \E path \in ValidatePaths :
        trace' = <<[op |-> "validateOutputPath", path |-> path,
                    err |-> validateOutputPath(path)]>>
    /\ UNCHANGED <<pc, cfg, dryRun, airgap, showVersion, providerName, registry,
                   provider, subq, fetched, inventory, exit, fs>>

\* one call of writeOutputSafely on the file system it finds: on its own, as
\* in TestWriteOutputSafely, or with the path main has validated
OutputWrite ==
    /\ pc = "output"
    /\ fs = NoFS
    /\ \E f \in FileSystems, path \in WritePaths, data \in {"{}", "{\"data_sources\": []}"} :
        /\ trace # <<>> => (trace[1].path = path /\ trace[1].err = NoErr)
        /\ fs' = writeOutputSafely(f, path, data).fs
        /\ trace' = Append(trace, [op |-> "writeOutputSafely", path |-> path,
                                    data |-> data, before |-> f,
                                    err |-> writeOutputSafely(f, path, data).err])
    /\ UNCHANGED <<pc, cfg, dryRun, airgap, showVersion, providerName, registry,
                   provider, subq, fetched, inventory, exit>>

OutputNext ==
    \/ OutputValidate
    \/ OutputWrite

SpecOutput ==
    OutputInit /\ [][OutputNext]_vars

\* path leaves the directory it starts in: at some element it has gone up
\* more often than down
ClimbsOut(path) ==
    LET parts == Split(path)
        ups(k) == Cardinality({j \in 1..k : parts[j] = s_dotdot})
        downs(k) == Cardinality({j \in 1..k : parts[j] \notin {s_dotdot, s_dot, <<>>}})
    IN  \E k \in 1..Len(parts) : ups(k) > downs(k)

\* C19: every path validateOutputPath accepts is, cleaned, relative and
\* without a ".." element; every absolute path and every path that climbs
\* out with ".." is refused; a bare relative file name is accepted.
C19_NoAbsoluteNoTraversal ==
    \A i \in 1..Len(trace) :
        trace[i].op = "validateOutputPath" =>
            LET path == trace[i].path
                accepted == trace[i].err = NoErr
            IN  /\ accepted => /\ ~IsAbs(Clean(path))
                               /\ s_dotdot \notin Range(Split(Clean(path)))
                /\ IsAbs(path) => ~accepted
                /\ (~IsAbs(path) /\ ClimbsOut(path)) => ~accepted
                /\ (path \in PathElements \ {s_dotdot, s_dot, <<>>}) => accepted

\* C20: after a writeOutputSafely that succeeded, the file at the path
\* holds the data and its permission bits are exactly 0600, whatever the
\* file system held at the path before.
C20_WrittenWith0600 ==
    \A i \in 1..Len(trace) :
        (trace[i].op = "writeOutputSafely" /\ trace[i].err = NoErr) =>
            /\ fs.nodes[Clean(trace[i].path)].kind = "file"
            /\ fs.nodes[Clean(trace[i].path)].content = trace[i].data
            /\ fs.nodes[Clean(trace[i].path)].mode = Perm0600

(***************************************************************************)
(* The orchestrator: one run of main.  The flags and the configuration     *)
(* file's content are the inputs; whether the paths are acceptable, the    *)
(* file loads and the output is written is the file system's answer.       *)
(***************************************************************************)
MainConfigs ==
    { ScenarioA,
      ScenarioB,
      ProviderConfig(s_elasticsearch, <<" ", "h", "t", "t", "p", "s", ":", "/", "/", "s", "i", "e", "m", ".", "e", "x", "a", "m", "p", "l", "e", ".", "c", "o", "m", ":", "9", "2", "0", "0", "\t">>,
                     AuthConfig(s_basic, <<" ", "a", "d", "m", "i", "n", " ">>, <<"s", "3", "c", "r", "e", "t">>, <<>>, <<>>)),
      ProviderConfig(s_sentinel, AzureEndpoint,
                     AuthConfig(s_bearer, <<>>, <<>>, <<"t", "o", "k">>, <<>>)),
      ProviderConfig(s_qradar, <<"h", "t", "t", "p", ":", "/", "/", "s", "i", "e", "m", ".", "e", "x", "a", "m", "p", "l", "e", ".", "c", "o", "m", ":", "9", "2", "0", "0">>, NilAuth),
      ProviderConfig(s_splunk, <<"h", "t", "t", "p", "s", ":", "/", "/", "s", "i", "e", "m", ".", "e", "x", "a", "m", "p", "l", "e", ".", "c", "o", "m", ":", "9", "2", "0", "0">>,
                     AuthConfig(<<"o", "a", "u", "t", "h">>, <<>>, <<>>, <<"t", "o", "k">>, <<>>)),
      ProviderConfig(s_splunk, <<"h", "t", "t", "p", "s", ":", "/", "/", "s", "i", "e", "m", ".", "e", "x", "a", "m", "p", "l", "e", ".", "c", "o", "m", ":", "9", "2", "0", "0">>,
                     AuthConfig(s_basic, <<" ">>, <<"s", "3", "c", "r", "e", "t">>, <<>>, <<>>)),
      ProviderConfig(<<" ">>, <<"h", "t", "t", "p", "s", ":", "/", "/", "s", "i", "e", "m", ".", "e", "x", "a", "m", "p", "l", "e", ".", "c", "o", "m", ":", "9", "2", "0", "0">>, NilAuth),
      ProviderConfig(<<>>, <<"h", "t", "t", "p", "s", ":", "/", "/", "s", "i", "e", "m", ".", "e", "x", "a", "m", "p", "l", "e", ".", "c", "o", "m", ":", "9", "2", "0", "0">>, NilAuth),
      ProviderConfig(s_splunk, <<>>, NilAuth) }

\* the -provider flag: absent, or a type to use instead of the file's
MainProviderNames ==
    {<<>>, <<"Q", "R", "A", "D", "A", "R">>, <<"k", "a", "f", "k", "a">>}

Init ==
    /\ pc = "version"
    /\ cfg \in MainConfigs
    /\ providerName \in MainProviderNames
    /\ dryRun \in BOOLEAN
    /\ airgap \in BOOLEAN
    /\ showVersion \in BOOLEAN
    /\ trace = <<>>
    /\ registry = providersInit
    /\ provider = NilProvider
    /\ subq = <<>>
    /\ fetched = NoResult
    /\ inventory = NoInventory
    /\ exit = "running"
    /\ fs = NoFS

\* os.Exit(0), or the return from main
Exit0 ==
    /\ pc' = "done"
    /\ exit' = "exit 0"

\* log.Fatalf(msg, ...)
Fatalf(msg) ==
    /\ pc' = "done"
    /\ exit' = msg

\* if *version { ...; os.Exit(0) }
MainVersion ==
    /\ pc = "version"
    /\ IF showVersion
       THEN Exit0
       ELSE pc' = "airgap" /\ exit' = exit
    /\ UNCHANGED <<cfg, trace, dryRun, airgap, showVersion, providerName, registry,
                   provider, subq, fetched, inventory, fs>>

\* if *airgap { ...; *dryRun = true }
MainAirgap ==
    /\ pc = "airgap"
    /\ dryRun' = IF airgap THEN TRUE ELSE dryRun
    /\ pc' = "paths"
    /\ UNCHANGED <<cfg, trace, airgap, showVersion, providerName, registry,
                   provider, subq, fetched, inventory, exit, fs>>

\* validatePath(*configPath), validateOutputPath(*output)
MainPaths ==
    /\ pc = "paths"
    /\ \E configOk \in BOOLEAN, outputOk \in BOOLEAN :
        IF ~configOk THEN Fatalf("Invalid config path")
        ELSE IF ~outputOk THEN Fatalf("Invalid output path")
        ELSE pc' = "load" /\ exit' = exit
    /\ UNCHANGED <<cfg, trace, dryRun, airgap, showVersion, providerName, registry,
                   provider, subq, fetched, inventory, fs>>

\* config.Load(*configPath): cfg is what the file holds
MainLoad ==
    /\ pc = "load"
    /\ \E loaded \in BOOLEAN :
        IF ~loaded THEN Fatalf("Failed to load config")
        ELSE pc' = "override" /\ exit' = exit
    /\ UNCHANGED <<cfg, trace, dryRun, airgap, showVersion, providerName, registry,
                   provider, subq, fetched, inventory, fs>>

\* if *providerName != "" { cfg.Provider.Type = *providerName }
MainOverride ==
    /\ pc = "override"
    /\ cfg' = IF providerName # <<>> THEN [cfg EXCEPT !.Type = providerName] ELSE cfg
    /\ pc' = "validate"
    /\ UNCHANGED <<trace, dryRun, airgap, showVersion, providerName, registry,
                   provider, subq, fetched, inventory, exit, fs>>

\* a plausible slip: the error of Validate is dropped
MainValidate_ErrorDropped ==
    /\ pc = "validate"
    /\ trace' = Append(trace, Call("Validate", cfg, cfg, Validate(cfg)))
    /\ pc' = "sanitize"
    /\ UNCHANGED <<cfg, dryRun, airgap, showVersion, providerName, registry,
                   provider, subq, fetched, inventory, exit, fs>>

\* if err := cfg.Validate(); err != nil { log.Fatalf(...) }
MainValidate ==
    /\ pc = "validate"
    /\ trace' = Append(trace, Call("Validate", cfg, cfg, Validate(cfg)))
    /\ IF Validate(cfg) # NoErr
       THEN Fatalf("Invalid configuration")
       ELSE pc' = "sanitize" /\ exit' = exit
    /\ UNCHANGED <<cfg, dryRun, airgap, showVersion, providerName, registry,
                   provider, subq, fetched, inventory, fs>>

\* if err := cfg.Sanitize(); err != nil { log.Fatalf(...) }
MainSanitize ==
    /\ pc = "sanitize"
    /\ cfg' = Sanitize(cfg).cfg
    /\ trace' = Append(trace, Call("Sanitize", cfg, Sanitize(cfg).cfg, Sanitize(cfg).err))
    /\ IF Sanitize(cfg).err # NoErr
       THEN Fatalf("Failed to sanitize config")
       ELSE pc' = "provider" /\ exit' = exit
    /\ UNCHANGED <<dryRun, airgap, showVersion, providerName, registry,
                   provider, subq, fetched, inventory, fs>>

\* provider, err := providers.NewProvider(cfg.Provider)
MainNewProvider ==
    /\ pc = "provider"
    /\ \E available \in getAvailableProviders(registry) :
        LET res == NewProvider(registry, cfg, available)
        IN  /\ provider' = res.provider
            /\ trace' = Append(trace, LookupCall(registry, res, registry))
            /\ IF res.err # NoErr
               THEN Fatalf("Failed to initialize provider")
               ELSE pc' = "dryrun" /\ exit' = exit
    /\ UNCHANGED <<cfg, dryRun, airgap, showVersion, providerName, registry,
                   subq, fetched, inventory, fs>>

\* a plausible slip: the dry-run block prints and does not exit
MainDryRun_NoExit ==
    /\ pc = "dryrun"
    /\ pc' = "connect"
    /\ UNCHANGED <<cfg, trace, dryRun, airgap, showVersion, providerName, registry,
                   provider, subq, fetched, inventory, exit, fs>>

\* if *dryRun { ...; os.Exit(0) }
MainDryRun ==
    /\ pc = "dryrun"
    /\ IF dryRun
       THEN Exit0
       ELSE pc' = "connect" /\ exit' = exit
    /\ UNCHANGED <<cfg, trace, dryRun, airgap, showVersion, providerName, registry,
                   provider, subq, fetched, inventory, fs>>

\* a plausible slip: the probe's error is logged and the run goes on
MainValidateConnection_ErrorIgnored ==
    /\ pc = "connect"
    /\ IF ~airgap
       THEN \E out \in ProbeOutcomes :
                /\ trace' = Append(trace, ConnectionCall(provider, out))
                /\ pc' = "fetch data views"
                /\ exit' = exit
       ELSE pc' = "fetch data views" /\ UNCHANGED <<trace, exit>>
    /\ UNCHANGED <<cfg, dryRun, airgap, showVersion, providerName, registry,
                   provider, subq, fetched, inventory, fs>>

\* if !*airgap { if err := provider.ValidateConnection(ctx); err != nil { log.Fatalf(...) } }
MainValidateConnection ==
    /\ pc = "connect"
    /\ IF ~airgap
       THEN \E out \in ProbeOutcomes :
                /\ trace' = Append(trace, ConnectionCall(provider, out))
                /\ IF ValidateConnection(provider, out) # NoErr
                   THEN Fatalf("Connection validation failed")
                   ELSE pc' = "fetch data views" /\ exit' = exit
       ELSE pc' = "fetch data views" /\ UNCHANGED <<trace, exit>>
    /\ UNCHANGED <<cfg, dryRun, airgap, showVersion, providerName, registry,
                   provider, subq, fetched, inventory, fs>>

\* if !*airgap { dataViews, err = provider.FetchDataViews(ctx) ... } else { dataViews = []types.DataSource{} }
MainFetch ==
    /\ pc = "fetch data views"
    /\ IF ~airgap
       THEN \E outs \in FetchOutcomes(provider) :
                /\ subq' = outs
                /\ fetched' = FetchDataViews(provider, outs)
                /\ trace' = Append(trace, FetchDataViewsCall(provider, outs))
                /\ IF FetchDataViews(provider, outs).err # NoErr
                   THEN Fatalf("Error retrieving data views")
                   ELSE pc' = "build" /\ exit' = exit
       ELSE /\ fetched' = Result(<<>>, NoErr)
            /\ pc' = "build"
            /\ UNCHANGED <<subq, trace, exit>>
    /\ UNCHANGED <<cfg, dryRun, airgap, showVersion, providerName, registry,
                   provider, inventory, fs>>

\* inventory := types.DataSourceInventory{...}
MainBuild ==
    /\ pc = "build"
    /\ inventory' = BuildInventory(Name(provider), version, fetched.recs)
    /\ pc' = "write"
    /\ UNCHANGED <<cfg, trace, dryRun, airgap, showVersion, providerName, registry,
                   provider, subq, fetched, exit, fs>>

\* json.MarshalIndent, writeOutputSafely(*output, jsonOutput), and the return
MainWrite ==
    /\ pc = "write"
    /\ \E written \in BOOLEAN :
        /\ trace' = Append(trace, [op |-> "writeOutputSafely",
                                   err |-> IF written THEN NoErr ELSE Errorf("write")])
        /\ IF ~written
           THEN Fatalf("Error writing to output file")
           ELSE Exit0
    /\ UNCHANGED <<cfg, dryRun, airgap, showVersion, providerName, registry,
                   provider, subq, fetched, inventory, fs>>

Next ==
    \/ MainVersion
    \/ MainAirgap
    \/ MainPaths
    \/ MainLoad
    \/ MainOverride
    \/ MainValidate
    \/ MainSanitize
    \/ MainNewProvider
    \/ MainDryRun
    \/ MainValidateConnection
    \/ MainFetch
    \/ MainBuild
    \/ MainWrite

Spec ==
    Init /\ [][Next]_vars

NetworkOps ==
    {"ValidateConnection", "FetchDataViews"}

\* C5: a provider is constructed and a network operation invoked only after
\* Validate and then Sanitize have returned success, and a failure of
\* either ends the run at once.
C5_GateBeforeNetwork ==
    /\ \A i \in 1..Len(trace) :
        trace[i].op \in NetworkOps \cup {"NewProvider"} =>
            \E j \in 1..(i - 1), k \in 1..(i - 1) :
                /\ j < k
                /\ trace[j].op = "Validate" /\ trace[j].err = NoErr
                /\ trace[k].op = "Sanitize" /\ trace[k].err = NoErr
    /\ \A i \in 1..Len(trace) :
        (trace[i].op \in {"Validate", "Sanitize"} /\ trace[i].err # NoErr) =>
            /\ i = Len(trace)
            /\ pc = "done"
            /\ exit \in {"Invalid configuration", "Failed to sanitize config"}
            /\ provider = NilProvider
            /\ fetched = NoResult
            /\ inventory = NoInventory
    /\ provider # NilProvider =>
        \E i \in 1..Len(trace) : trace[i].op = "Sanitize" /\ trace[i].err = NoErr

\* FetchDataViews was invoked in a run whose Sanitize had rewritten the
\* configuration
C5_Witness ==
    \E i \in 1..Len(trace), k \in 1..Len(trace) :
        /\ trace[i].op = "FetchDataViews"
        /\ trace[k].op = "Sanitize"
        /\ trace[k].before # trace[k].after

\* a run in which Validate failed and ended, nothing else having run
C5_WitnessFatal ==
    /\ pc = "done"
    /\ exit = "Invalid configuration"
    /\ Len(trace) = 1
    /\ trace[1].op = "Validate"

\* C9: the inventory's source_count is the length of its data_sources and
\* its generated_by is "logfiend".
C9_SourceCount ==
    inventory # NoInventory =>
        /\ inventory.Metadata.SourceCount = Len(inventory.DataSources)
        /\ inventory.Metadata.GeneratedBy = "logfiend"
        /\ inventory.DataSources = fetched.recs

\* an inventory was built from a fetch that returned two records
C9_Witness ==
    /\ inventory # NoInventory
    /\ Len(inventory.DataSources) >= 2

\* an inventory was built from a fetch that returned no record
C9_WitnessEmpty ==
    /\ inventory # NoInventory
    /\ inventory.DataSources = <<>>

\* C10: with dry-run or airgap set, neither ValidateConnection nor
\* FetchDataViews is invoked, and the run cannot end with their errors.
C10_NoNetworkWhenDisabled ==
    (dryRun \/ airgap) =>
        /\ \A i \in 1..Len(trace) : trace[i].op \notin NetworkOps
        /\ exit \notin {"Connection validation failed", "Error retrieving data views"}
        /\ fetched = NoResult

\* a dry run that passed the gate, constructed its provider and ended
C10_Witness ==
    /\ dryRun
    /\ ~airgap
    /\ provider # NilProvider
    /\ pc = "done"

\* C11: a run in airgap mode that passed the gate and constructed its
\* provider makes no network call, assembles an inventory from an empty data
\* source list (source_count 0) and hands it to writeOutputSafely.
C11_AirgapEmptyInventory ==
    (airgap /\ provider # NilProvider /\ pc = "done") =>
        /\ \A i \in 1..Len(trace) : trace[i].op \notin NetworkOps
        /\ inventory # NoInventory
        /\ inventory.DataSources = <<>>
        /\ inventory.Metadata.SourceCount = 0
        /\ \E i \in 1..Len(trace) : trace[i].op = "writeOutputSafely"

\* the operations after which main stops the run on an error
AbortingOps ==
    {"NewProvider", "ValidateConnection", "FetchDataViews"}

\* C23: in a run that is neither dry-run nor airgap, FetchDataViews is
\* invoked only after a ValidateConnection that returned no error, the output
\* is written only after a FetchDataViews that returned no error, and after a
\* failed lookup, probe or fetch nothing is written.
C23_AbortOnError ==
    (~dryRun /\ ~airgap) =>
        /\ \A i \in 1..Len(trace) :
            trace[i].op = "FetchDataViews" =>
                \E j \in 1..(i - 1) :
                    trace[j].op = "ValidateConnection" /\ trace[j].err = NoErr
        /\ \A i \in 1..Len(trace) :
            trace[i].op = "writeOutputSafely" =>
                \E j \in 1..(i - 1) :
                    trace[j].op = "FetchDataViews" /\ trace[j].err = NoErr
        /\ (\E j \in 1..Len(trace) : trace[j].op \in AbortingOps /\ trace[j].err # NoErr)
                => \A i \in 1..Len(trace) : trace[i].op # "writeOutputSafely"

\* a run that probed, fetched and wrote its output
C23_Witness ==
    /\ ~dryRun
    /\ pc = "done"
    /\ exit = "exit 0"
    /\ \E i \in 1..Len(trace) : trace[i].op = "writeOutputSafely" /\ trace[i].err = NoErr

\* a run that stopped on a failed fetch after a good probe
C23_WitnessFetchFailed ==
    /\ ~dryRun
    /\ pc = "done"
    /\ exit = "Error retrieving data views"
    /\ trace[Len(trace)].op = "FetchDataViews"

\* a run that stopped on a failed probe
C23_WitnessProbeFailed ==
    /\ ~dryRun
    /\ pc = "done"
    /\ exit = "Connection validation failed"
    /\ trace[Len(trace)].op = "ValidateConnection"

====
